---- MODULE Spec2Model ----
(***************************************************************************)
(* Model of the SillyTranslator translation pipelines:                     *)
(*   - preset_translator/engine.py            Engine_ definitions           *)
(*   - preset_translator/preset_translator.py Preset_ definitions           *)
(*   - card_translator/card_translator.py     Card_ definitions             *)
(* A Python str is a sequence of one-character strings.  Regular           *)
(* expressions are translated one by one into match operators that give,   *)
(* for a start index, the index just past the match (0: no match here).    *)
(***************************************************************************)
EXTENDS Integers, Sequences, FiniteSets, TLC

VARIABLES
    phase,    \* "idle" before the modelled call, "done" after it
    op,       \* which operation ran
    src,      \* the source text (or document) handed to the operation
    out,      \* the value the operation returned
    raised,   \* TRUE when the operation ended with an exception
    sent,     \* the requests that reached the backend, in order
    aux,      \* operation-specific record (configuration, reply kinds, markers)
    proc,     \* the CharacterProcessor: its settings and its two caches
    hist,     \* the translate_text calls the processor has completed, in order
    pc        \* the position of each caller inside translate_text

vars == <<phase, op, src, out, raised, sent, aux, proc, hist, pc>>

\* LET with the value computed once: Body applied to the value of e
Bind(e, Body(_)) == CHOOSE r \in {Body(v) : v \in {e}} : TRUE

-----------------------------------------------------------------------------
(* Characters and Python str methods                                       *)

LowerSeq == <<"a","b","c","d","e","f","g","h","i","j","k","l","m",
              "n","o","p","q","r","s","t","u","v","w","x","y","z">>
UpperSeq == <<"A","B","C","D","E","F","G","H","I","J","K","L","M",
              "N","O","P","Q","R","S","T","U","V","W","X","Y","Z">>
DigitSeq == <<"0","1","2","3","4","5","6","7","8","9">>

Range(f) == {f[i] : i \in DOMAIN f}

SpaceSet == {" ", "\n", "\t", "\r"}
WordSet  == Range(LowerSeq) \cup Range(UpperSeq) \cup Range(DigitSeq) \cup {"_"}
Letters  == Range(LowerSeq) \cup Range(UpperSeq)

ToUpper(c) ==
    IF c \in Range(LowerSeq) THEN UpperSeq[CHOOSE i \in 1..26 : LowerSeq[i] = c] ELSE c
ToLower(c) ==
    IF c \in Range(UpperSeq) THEN LowerSeq[CHOOSE i \in 1..26 : UpperSeq[i] = c] ELSE c

Min(S) == CHOOSE x \in S : \A y \in S : x <= y
Max(S) == 0 - Min({0 - x : x \in S})

\* s[a:b] with 1-based a and exclusive b
Slice(s, a, b) == IF b <= a THEN <<>> ELSE SubSeq(s, a, IF b - 1 > Len(s) THEN Len(s) ELSE b - 1)
From(s, a) == Slice(s, a, Len(s) + 1)

\* str.upper / str.lower / str.isupper / str.islower
StrUpper(s) == [i \in 1..Len(s) |-> ToUpper(s[i])]
StrLower(s) == [i \in 1..Len(s) |-> ToLower(s[i])]
IsUpperStr(s) == /\ \E i \in 1..Len(s) : s[i] \in Range(UpperSeq)
                 /\ \A i \in 1..Len(s) : s[i] \notin Range(LowerSeq)
IsLowerStr(s) == /\ \E i \in 1..Len(s) : s[i] \in Range(LowerSeq)
                 /\ \A i \in 1..Len(s) : s[i] \notin Range(UpperSeq)

\* the pattern p occurs in s at index i
At(s, i, p) == /\ i >= 1
               /\ i + Len(p) - 1 <= Len(s)
               /\ \A k \in 1..Len(p) : s[i + k - 1] = p[k]

\* str.find from index a: first index >= a where p occurs, 0 when none
Find(s, p, a) ==
    Bind({i \in a..(Len(s) - Len(p) + 1) : At(s, i, p)}, LAMBDA hits :
      IF hits = {} THEN 0 ELSE Min(hits))

\* p in s
Contains(s, p) == Find(s, p, 1) # 0

StartsWith(s, p) == At(s, 1, p)
EndsWith(s, p) == Len(p) <= Len(s) /\ At(s, Len(s) - Len(p) + 1, p)

\* index just past the run of characters of class C that starts at i
RunEnd(s, i, C) ==
    Bind({j \in i..Len(s) : s[j] \notin C}, LAMBDA stop :
      IF stop = {} THEN Len(s) + 1 ELSE Min(stop))

\* index of the first character of class C at or after a, 0 when none
FirstOf(s, C, a) ==
    Bind({j \in a..Len(s) : s[j] \in C}, LAMBDA hits :
      IF hits = {} THEN 0 ELSE Min(hits))

\* concatenation of a sequence of strings, and sep.join(parts)
RECURSIVE Concat(_)
Concat(parts) ==
    IF Len(parts) = 0 THEN <<>>
    ELSE IF Len(parts) = 1 THEN parts[1]
    ELSE Concat(SubSeq(parts, 1, Len(parts) \div 2))
         \o Concat(SubSeq(parts, Len(parts) \div 2 + 1, Len(parts)))

Join(sep, parts) ==
    IF Len(parts) = 0 THEN <<>>
    ELSE Concat([i \in 1..(2 * Len(parts) - 1) |->
                   IF i % 2 = 1 THEN parts[(i + 1) \div 2] ELSE sep])

\* n spaces
Spaces(n) == [i \in 1..n |-> " "]

\* the subsequence of s, from index i on, at the indices where keep[i] holds
SelectFrom(s, keep, i) ==
    Concat([j \in 1..(Len(s) - i + 1) |->
              IF keep[j + i - 1] THEN <<s[j + i - 1]>> ELSE <<>>])

\* re.finditer: the non-overlapping matches, leftmost first.  me[i] is the index
\* just past the match that starts at i, or 0 when the pattern does not match at
\* i; cand is the set of the indices where it matches.
NextMatch(me, cand, i) ==
    Bind({j \in cand : j >= i}, LAMBDA later :
      IF later = {} THEN <<>>
      ELSE Bind(Min(later), LAMBDA b : <<b, me[b]>>))

\* the matches from the match m on
RECURSIVE ScanMatches(_, _, _)
ScanMatches(me, cand, m) ==
    IF m = <<>> THEN <<>>
    ELSE <<m>> \o ScanMatches(me, cand, NextMatch(me, cand, m[2]))

FindIter(s, me) ==
    Bind({j \in 1..Len(s) : me[j] # 0}, LAMBDA cand :
      ScanMatches(me, cand, NextMatch(me, cand, 1)))

\* the text of s between the matches: piece q + 1 lies after match q
Between(s, matches, q) ==
    Slice(s, IF q = 0 THEN 1 ELSE matches[q][2],
             IF q = Len(matches) THEN Len(s) + 1 ELSE matches[q + 1][1])

\* re.sub for a pattern given by its matches and the replacement of each
SubMatches(s, matches, repls) ==
    Concat([p \in 1..(2 * Len(matches) + 1) |->
              IF p % 2 = 0 THEN repls[p \div 2]
              ELSE Between(s, matches, (p - 1) \div 2)])

\* re.sub(pattern, '', s) for a pattern given by its match ends me
CutMatches(s, me) ==
    Bind(FindIter(s, me), LAMBDA matches :
      SubMatches(s, matches, [k \in 1..Len(matches) |-> <<>>]))

\* re.split(pattern, s) for a pattern without groups, given by its matches
SplitAt(s, matches) == [p \in 1..(Len(matches) + 1) |-> Between(s, matches, p - 1)]

\* split_pattern.split(processed_text): pieces and kept delimiters, alternating
SplitKeep(s, matches) ==
    [p \in 1..(2 * Len(matches) + 1) |->
       IF p % 2 = 0
       THEN [delim |-> TRUE,
             text |-> Slice(s, matches[p \div 2][1], matches[p \div 2][2])]
       ELSE [delim |-> FALSE, text |-> Between(s, matches, (p - 1) \div 2)]]

\* str.split(sep) for a one-character separator: the pieces, empty ones included
SplitOn(s, sep) ==
    SplitAt(s, FindIter(s, [i \in 1..Len(s) |-> IF s[i] = sep THEN i + 1 ELSE 0]))

\* str.split(): the maximal runs of non-whitespace characters
SplitWords(s) ==
    Bind(FindIter(s, [i \in 1..Len(s) |->
                        IF s[i] \in SpaceSet THEN 0
                        ELSE Bind(FirstOf(s, SpaceSet, i), LAMBDA e :
                               IF e = 0 THEN Len(s) + 1 ELSE e)]), LAMBDA matches :
      [k \in 1..Len(matches) |-> Slice(s, matches[k][1], matches[k][2])])

\* str.replace(old, new): every non-overlapping occurrence, left to right
Replace(s, old, new) ==
    IF Len(old) = 0 THEN s
    ELSE Bind(FindIter(s, [i \in 1..Len(s) |->
                             IF At(s, i, old) THEN i + Len(old) ELSE 0]), LAMBDA matches :
           SubMatches(s, matches, [k \in 1..Len(matches) |-> new]))

\* str.replace(old, new, 1)
ReplaceFirst(s, old, new) ==
    Bind(Find(s, old, 1), LAMBDA i :
      IF i = 0 THEN s ELSE Slice(s, 1, i) \o new \o From(s, i + Len(old)))

\* str.strip / lstrip / rstrip
LStrip(s) ==
    Bind({i \in 1..Len(s) : s[i] \notin SpaceSet}, LAMBDA keep :
      IF keep = {} THEN <<>> ELSE From(s, Min(keep)))
RStrip(s) ==
    Bind({i \in 1..Len(s) : s[i] \notin SpaceSet}, LAMBDA keep :
      IF keep = {} THEN <<>> ELSE Slice(s, 1, Max(keep) + 1))
Strip(s) == LStrip(RStrip(s))

\* str(n) for a natural number
RECURSIVE Decimal(_)
Decimal(n) == IF n < 10 THEN <<DigitSeq[n + 1]>>
              ELSE Decimal(n \div 10) \o <<DigitSeq[(n % 10) + 1]>>

-----------------------------------------------------------------------------
(* The backend: what one request can come back as                          *)

ReplyKinds == {"ok", "echo", "fail", "empty", "none"}

\* A translation: the letters of the alphabet used for prose change, everything
\* else (markers, stand-in names, punctuation, layout) comes back as sent.
TrChar(c) == CASE c = "t" -> "q"
               [] c = "T" -> "Q"
               [] OTHER -> c
Translate(req) == [i \in 1..Len(req) |-> TrChar(req[i])]

\* reply of the backend to req: fail = the call raised (network, auth, rate
\* limit, timeout); none = the reply is None; text = the reply text otherwise
\* a reply in lower case that keeps the names Jane, James and Tia as they are
SmallLetters(text) ==
    Replace(Replace(Replace(StrLower(text), <<"j","a","n","e">>, <<"J","a","n","e">>),
                    <<"j","a","m","e","s">>, <<"J","a","m","e","s">>),
            <<"t","i","a">>, <<"T","i","a">>)

BackendReply(kind, req) ==
    CASE kind = "ok"    -> [fail |-> FALSE, none |-> FALSE, text |-> Translate(req)]
      [] kind = "lower" -> [fail |-> FALSE, none |-> FALSE,
                            text |-> StrLower(Translate(req))]
      [] kind = "upper" -> [fail |-> FALSE, none |-> FALSE,
                            text |-> StrUpper(Translate(req))]
      [] kind = "small" -> [fail |-> FALSE, none |-> FALSE,
                            text |-> SmallLetters(Translate(req))]
      [] kind = "echo"  -> [fail |-> FALSE, none |-> FALSE, text |-> req]
      [] kind = "empty" -> [fail |-> FALSE, none |-> FALSE, text |-> <<>>]
      [] kind = "none"  -> [fail |-> FALSE, none |-> TRUE,  text |-> <<>>]
      [] OTHER          -> [fail |-> TRUE,  none |-> FALSE, text |-> <<>>]

\* the outcome of the n-th backend call of an operation
KindAt(kinds, n) == kinds[((n - 1) % Len(kinds)) + 1]
\* the outcomes left after n calls
ShiftKinds(kinds, n) == [i \in 1..Len(kinds) |-> KindAt(kinds, i + n)]

\* what a call gives back to its caller
Returned(text, reqs) == [out |-> text, raised |-> FALSE, sent |-> reqs]
Raised(reqs) == [out |-> <<>>, raised |-> TRUE, sent |-> reqs]

-----------------------------------------------------------------------------
(* Literals shared by engine.py and preset_translator.py                   *)

CODE_BLOCK_PLACEHOLDER_PREFIX == <<"_","_","C","O","D","E","_","B","L","O","C","K","_">>
INLINE_CODE_PLACEHOLDER_PREFIX ==
    <<"_","_","I","N","L","I","N","E","_","C","O","D","E","_">>
VarChar == <<"{","{","c","h","a","r","}","}">>
VarUser == <<"{","{","u","s","e","r","}","}">>
Jane  == <<"J","a","n","e">>
James == <<"J","a","m","e","s">>
\* VAR_PLACEHOLDERS and REVERSED_VAR_PLACEHOLDERS, in dict order
VAR_PLACEHOLDERS == << <<VarChar, Jane>>, <<VarUser, James>> >>
REVERSED_VAR_PLACEHOLDERS == << <<Jane, VarChar>>, <<James, VarUser>> >>
MAX_CHUNK_CHAR_LIMIT == 4500

\* The backtick character.  SANY's lexer rejects a backtick inside a string
\* literal, so the model writes it as a tilde, a character that no pattern and
\* no literal of the three programs mentions.
BT      == "~"
Ticks3  == <<BT, BT, BT>>
NL      == <<"\n">>
NLTicks == <<"\n", BT, BT, BT>>
SP      == <<" ">>

\* triple_backtick_pattern (three backticks, an optional first line, the
\* shortest body, a newline and three backticks) at index i
TripleBacktickEnd(s, i) ==
    IF ~At(s, i, Ticks3) THEN 0
    ELSE Bind(Find(s, NL, i + 3), LAMBDA p :
           IF p = 0 THEN 0
           ELSE Bind(Find(s, NLTicks, p + 1), LAMBDA q :
                  IF q # 0 THEN q + 4
                  ELSE IF At(s, p, NLTicks) THEN p + 4
                  ELSE 0))

\* inline_backtick_pattern (a backtick, one or more characters that are
\* neither backtick nor newline, a backtick) at index i
InlineBacktickEnd(s, i) ==
    IF ~At(s, i, <<BT>>) THEN 0
    ELSE Bind({j \in (i + 1)..Len(s) : s[j] \in {BT, "\n"}}, LAMBDA stop :
           IF stop = {} THEN 0
           ELSE Bind(Min(stop), LAMBDA j :
                  IF s[j] = BT /\ j > i + 1 THEN j + 1 ELSE 0))

\* f"({triple_backtick_pattern})|({inline_backtick_pattern})" at index i
CodeSpanEnd(s, i) ==
    Bind(TripleBacktickEnd(s, i), LAMBDA block :
      IF block # 0 THEN block ELSE InlineBacktickEnd(s, i))

-----------------------------------------------------------------------------
(* engine.py : TranslationEngine                                           *)

\* the loop over reversed(matches) of _extract_and_protect;
\* items is the dict protected_items as a sequence of <<placeholder, original>>
RECURSIVE Engine_protect_matches(_, _, _, _, _)
Engine_protect_matches(orig, text, matches, k, items) ==
    IF k = 0 THEN [text |-> text, items |-> items]
    ELSE LET start == matches[k][1]
             end == matches[k][2]
             is_block == TripleBacktickEnd(orig, start) # 0
             placeholder_prefix == IF is_block THEN CODE_BLOCK_PLACEHOLDER_PREFIX
                                   ELSE INLINE_CODE_PLACEHOLDER_PREFIX
         IN Bind(placeholder_prefix \o Decimal(Len(items)), LAMBDA placeholder :
            Bind(Slice(text, 1, start) \o placeholder \o From(text, end), LAMBDA text1 :
            Bind(Append(items, <<placeholder, Slice(orig, start, end)>>), LAMBDA items1 :
              Engine_protect_matches(orig, text1, matches, k - 1, items1))))

Engine_extract_and_protect(text) ==
    Bind(Replace(Replace(text, VarChar, Jane), VarUser, James), LAMBDA t1 :
    Bind(FindIter(t1, [i \in 1..Len(t1) |-> CodeSpanEnd(t1, i)]), LAMBDA matches :
      Engine_protect_matches(t1, t1, matches, Len(matches), <<>>)))

\* sorted(keys, key=len, reverse=True): stable, longest placeholder first
RECURSIVE InsertByLen(_, _)
InsertByLen(sorted, item) ==
    IF sorted = <<>> THEN <<item>>
    ELSE IF Len(Head(sorted)[1]) >= Len(item[1])
         THEN <<Head(sorted)>> \o InsertByLen(Tail(sorted), item)
         ELSE <<item>> \o sorted

RECURSIVE SortByLenDesc(_)
SortByLenDesc(items) ==
    IF items = <<>> THEN <<>>
    ELSE InsertByLen(SortByLenDesc(SubSeq(items, 1, Len(items) - 1)), items[Len(items)])

\* text.replace(k, v) for each <<k, v>> of pairs, in order
RECURSIVE ReplaceEach(_, _)
ReplaceEach(text, pairs) ==
    IF pairs = <<>> THEN text
    ELSE Bind(Replace(text, Head(pairs)[1], Head(pairs)[2]), LAMBDA replaced :
           ReplaceEach(replaced, Tail(pairs)))

Engine_restore_protected(text, protected_items) ==
    Bind(ReplaceEach(text, SortByLenDesc(protected_items)), LAMBDA restored :
      ReplaceEach(restored, REVERSED_VAR_PLACEHOLDERS))

\* re.sub(r'\s+([.,;:])', r'\1', text)
SubSpaceBeforePunct(s) ==
    SelectFrom(s, [i \in 1..Len(s) |->
                    ~(/\ s[i] \in SpaceSet
                      /\ Bind(RunEnd(s, i, SpaceSet), LAMBDA e :
                           e <= Len(s) /\ s[e] \in {".", ",", ";", ":"}))], 1)

\* re.sub(r'([P])(?=[^X])', r'\1 ', text): a space after each mark of P whose
\* next character exists and is outside X
SubSpaceAfter(s, P, X) ==
    Concat([i \in 1..Len(s) |->
              IF s[i] \in P /\ i < Len(s) /\ s[i + 1] \notin X
              THEN <<s[i], " ">> ELSE <<s[i]>>])

\* re.sub(r'([.!?]\s+)([a-z])', lambda m: m.group(1) + m.group(2).upper(), text)
SubCapitalizeAfterSentence(s) ==
    [j \in 1..Len(s) |->
        IF /\ s[j] \in Range(LowerSeq)
           /\ \E i \in 1..(j - 2) :
                 /\ s[i] \in {".", "!", "?"}
                 /\ \A k \in (i + 1)..(j - 1) : s[k] \in SpaceSet
        THEN ToUpper(s[j]) ELSE s[j]]

\* re.sub(r' +', ' ', text)
SubCollapseSpaces(s) ==
    SelectFrom(s, [i \in 1..Len(s) |-> ~(s[i] = " " /\ i > 1 /\ s[i - 1] = " ")], 1)

Engine_post_process_formatting(text) ==
    Bind(SubSpaceBeforePunct(text), LAMBDA t1 :
    Bind(SubSpaceAfter(t1, {".", ",", ";", ":"}, SpaceSet \cup {")", "}", "]"}), LAMBDA t2 :
    Bind(SubSpaceAfter(t2, {".", "!", "?"}, SpaceSet \cup {")", "}", "]"}), LAMBDA t3 :
    Bind(SubCapitalizeAfterSentence(t3), LAMBDA t4 :
    Bind(SubCollapseSpaces(t4), LAMBDA t5 : Strip(t5))))))

\* r'<\/\w+>' at index i
CloseTagEnd(s, i) ==
    IF ~At(s, i, <<"<", "/">>) THEN 0
    ELSE Bind(RunEnd(s, i + 2, WordSet), LAMBDA j :
           IF j > i + 2 /\ j <= Len(s) /\ s[j] = ">" THEN j + 1 ELSE 0)

\* reasoning_pattern r'<\w+>[\s\S]*?<\/\w+>' at index i
ReasoningEnd(s, i) ==
    IF ~At(s, i, <<"<">>) THEN 0
    ELSE Bind(RunEnd(s, i + 1, WordSet), LAMBDA j :
           IF ~(j > i + 1 /\ j <= Len(s) /\ s[j] = ">") THEN 0
           ELSE Bind({q \in (j + 1)..Len(s) : CloseTagEnd(s, q) # 0}, LAMBDA closes :
                  IF closes = {} THEN 0 ELSE CloseTagEnd(s, Min(closes))))

\* index just past one r'(?:\r?\n|---)' at i, 0 when none
RuleTokenEnd(s, i) ==
    IF At(s, i, <<"\r", "\n">>) THEN i + 2
    ELSE IF At(s, i, <<"\n">>) THEN i + 1
    ELSE IF At(s, i, <<"-", "-", "-">>) THEN i + 3
    ELSE 0

\* index just past r'^(?:\r?\n|---)*' from i
RECURSIVE RuleRunEnd(_, _)
RuleRunEnd(s, i) ==
    Bind(RuleTokenEnd(s, i), LAMBDA e : IF e = 0 THEN i ELSE RuleRunEnd(s, e))

Engine_clean_llm_response(text) ==
    Bind(CutMatches(text, [i \in 1..Len(text) |-> ReasoningEnd(text, i)]), LAMBDA c1 :
    \* r'^(3 backticks)(\w+)?\n'
    Bind(RunEnd(c1, 4, WordSet), LAMBDA w :
    Bind(IF StartsWith(c1, Ticks3) /\ w <= Len(c1) /\ c1[w] = "\n"
         THEN From(c1, w + 1) ELSE c1, LAMBDA c2 :
    \* r'\n(3 backticks)$'
    Bind(IF EndsWith(c2, NLTicks) THEN Slice(c2, 1, Len(c2) - 3)
         ELSE IF EndsWith(c2, NLTicks \o NL)
              THEN Slice(c2, 1, Len(c2) - 4) \o NL
         ELSE c2, LAMBDA c3 :
    \* r'^(?:\r?\n|---)*'
    Bind(From(c3, RuleRunEnd(c3, 1)), LAMBDA c4 :
    \* r'(?:\r?\n|---)*$': the leftmost index whose run of tokens ends the text
    Bind({i \in 1..Len(c4) : RuleRunEnd(c4, i) = Len(c4) + 1}, LAMBDA tails :
      Strip(IF tails = {} THEN c4 ELSE Slice(c4, 1, Min(tails)))))))))

\* _translate_with_llm: one request carrying the prompt built around text; the
\* request is recorded by its payload and by the angle instruction of the prompt
Engine_translate_with_llm(text, client, translate_angle, kind) ==
    IF ~client THEN Raised(<<>>)
    ELSE LET request == [text |-> text,
                         instr |-> IF translate_angle THEN "translate_angle"
                                   ELSE "keep_angle"]
         IN Bind(BackendReply(kind, text), LAMBDA reply :
              IF reply.fail THEN Raised(<<request>>)
              ELSE IF reply.none \/ reply.text = <<>> THEN Raised(<<request>>)
              ELSE Returned(Engine_clean_llm_response(reply.text), <<request>>))

\* re.split(r'(?<=[.!?])\s+', text)
SplitSentences(s) ==
    SplitAt(s, FindIter(s, [i \in 1..Len(s) |->
                  IF i > 1 /\ s[i - 1] \in {".", "!", "?"} /\ s[i] \in SpaceSet
                  THEN RunEnd(s, i, SpaceSet) ELSE 0]))

\* translate_now sending t as it is, without t.strip()
Engine_translate_now_unstripped(st, t, kinds) ==
    IF Strip(t) = <<>>
    THEN [st EXCEPT !.chunks = Append(@, [none |-> FALSE, text |-> t])]
    ELSE Bind(BackendReply(KindAt(kinds, Len(st.sent) + 1), t), LAMBDA reply :
           [st EXCEPT !.sent = Append(@, [text |-> t, instr |-> "none"]),
                      !.chunks = Append(@, IF reply.fail
                                           THEN [none |-> FALSE, text |-> t]
                                           ELSE [none |-> reply.none,
                                                 text |-> reply.text])])

\* translate_now(t) of _translate_with_google; st = [chunks, cur, sent]
Engine_translate_now(st, t, kinds) ==
    Bind(Strip(t), LAMBDA req :
      IF req = <<>>
      THEN [st EXCEPT !.chunks = Append(@, [none |-> FALSE, text |-> t])]
      ELSE Bind(BackendReply(KindAt(kinds, Len(st.sent) + 1), req), LAMBDA reply :
             [st EXCEPT !.sent = Append(@, [text |-> req, instr |-> "none"]),
                        !.chunks = Append(@, IF reply.fail
                                             THEN [none |-> FALSE, text |-> t]
                                             ELSE [none |-> reply.none,
                                                   text |-> reply.text])]))

\* for i in range(0, len(sentence), MAX_CHUNK_CHAR_LIMIT), i 1-based here
RECURSIVE Engine_hard_break(_, _, _, _)
Engine_hard_break(st, sentence, i, kinds) ==
    IF i > Len(sentence) THEN st
    ELSE Bind(Engine_translate_now(st, Slice(sentence, i, i + MAX_CHUNK_CHAR_LIMIT), kinds),
              LAMBDA st1 :
                Engine_hard_break(st1, sentence, i + MAX_CHUNK_CHAR_LIMIT, kinds))

\* for sentence in sentences
RECURSIVE Engine_sentence_loop(_, _, _, _)
Engine_sentence_loop(st, sentences, k, kinds) ==
    IF k > Len(sentences) THEN st
    ELSE Bind(sentences[k], LAMBDA sentence :
         Bind(IF Len(sentence) > MAX_CHUNK_CHAR_LIMIT
              THEN Bind(IF st.cur # <<>>
                        THEN [Engine_translate_now(st, st.cur, kinds) EXCEPT !.cur = <<>>]
                        ELSE st,
                        LAMBDA flushed : Engine_hard_break(flushed, sentence, 1, kinds))
              ELSE IF Len(st.cur) + Len(sentence) > MAX_CHUNK_CHAR_LIMIT
              THEN [Engine_translate_now(st, st.cur, kinds) EXCEPT !.cur = sentence \o SP]
              ELSE [st EXCEPT !.cur = @ \o sentence \o SP],
              LAMBDA next : Engine_sentence_loop(next, sentences, k + 1, kinds)))

Engine_translate_with_google(text, kinds) ==
    Bind(SplitSentences(text), LAMBDA sentences :
    Bind(Engine_sentence_loop([chunks |-> <<>>, cur |-> <<>>, sent |-> <<>>],
                              sentences, 1, kinds), LAMBDA st1 :
    Bind(IF st1.cur # <<>> THEN Engine_translate_now(st1, st1.cur, kinds) ELSE st1,
         LAMBDA st2 :
           \* " ".join(...) raises TypeError on a None chunk
           IF \E i \in 1..Len(st2.chunks) : st2.chunks[i].none THEN Raised(st2.sent)
           ELSE Returned(Strip(Join(SP, [i \in 1..Len(st2.chunks) |-> st2.chunks[i].text])),
                         st2.sent))))

\* translate_text(text, **kwargs); cfg = [use_llm, client, translate_angle]
Engine_translate_text(text, cfg, kinds) ==
    IF Strip(text) = <<>> THEN Returned(text, <<>>)
    ELSE Bind(Engine_extract_and_protect(text), LAMBDA p :
         Bind(IF cfg.use_llm
              THEN Engine_translate_with_llm(p.text, cfg.client, cfg.translate_angle,
                                             KindAt(kinds, 1))
              ELSE Engine_translate_with_google(p.text, kinds), LAMBDA t :
           IF t.raised THEN t
           ELSE Returned(Engine_post_process_formatting(
                             Engine_restore_protected(t.out, p.items)), t.sent)))

-----------------------------------------------------------------------------
(* JSON documents: a tree of dict / list / str / other nodes.  A dict keeps *)
(* its keys in insertion order (keys[i] names items[i]).                   *)

StrNode(v)       == [t |-> "str",   keys |-> <<>>, items |-> <<>>, val |-> v]
ListNode(xs)     == [t |-> "list",  keys |-> <<>>, items |-> xs,   val |-> <<>>]
DictNode(ks, xs) == [t |-> "dict",  keys |-> ks,   items |-> xs,   val |-> <<>>]
\* any other JSON value: number, boolean, null
OtherNode        == [t |-> "other", keys |-> <<>>, items |-> <<>>, val |-> <<>>]

RECURSIVE GetAt(_, _)
GetAt(node, path) ==
    IF path = <<>> THEN node ELSE GetAt(node.items[Head(path)], Tail(path))

RECURSIVE SetAt(_, _, _)
SetAt(node, path, new) ==
    IF path = <<>> THEN new
    ELSE [node EXCEPT !.items[Head(path)] = SetAt(@, Tail(path), new)]

Engine_TARGET_FIELDS ==
    {"content", "new_group_chat_prompt", "new_example_chat_prompt",
     "continue_nudge_prompt", "wi_format", "personality_format",
     "group_nudge_prompt", "scenario_format", "new_chat_prompt",
     "impersonation_prompt", "bias_preset_selected", "assistant_impersonation",
     "assistant_prefill"}

\* find_items of translate_json_data: the paths of (container, key), in visit order
RECURSIVE Engine_find_items(_, _, _)
Engine_find_items(node, path, i) ==
    IF i > Len(node.items) THEN <<>>
    ELSE Bind(node.items[i], LAMBDA value :
           (IF node.t = "dict"
            THEN IF /\ node.keys[i] \in Engine_TARGET_FIELDS
                    /\ value.t = "str"
                    /\ Strip(value.val) # <<>>
                 THEN <<Append(path, i)>>
                 ELSE IF value.t \in {"dict", "list"}
                      THEN Engine_find_items(value, Append(path, i), 1)
                      ELSE <<>>
            ELSE IF value.t \in {"dict", "list"}
                 THEN Engine_find_items(value, Append(path, i), 1)
                 ELSE <<>>)
           \o Engine_find_items(node, path, i + 1))

\* the loop over items_to_translate; st = [data, raised, sent, done]
RECURSIVE Engine_translate_items(_, _, _, _, _)
Engine_translate_items(st, found, k, cfg, kinds) ==
    IF k > Len(found) \/ st.raised THEN st
    ELSE Bind(Engine_translate_text(GetAt(st.data, found[k]).val, cfg,
                                    ShiftKinds(kinds, Len(st.sent))), LAMBDA r :
         Bind(IF r.raised
              THEN [st EXCEPT !.raised = TRUE, !.sent = @ \o r.sent]
              ELSE [st EXCEPT !.data = SetAt(@, found[k], StrNode(r.out)),
                              !.sent = @ \o r.sent,
                              !.done = @ + 1], LAMBDA st1 :
           Engine_translate_items(st1, found, k + 1, cfg, kinds)))

Engine_translate_json_data(data, cfg, kinds) ==
    Bind(Engine_find_items(data, <<>>, 1), LAMBDA found :
      Engine_translate_items([data |-> data, raised |-> FALSE, sent |-> <<>>, done |-> 0],
                             found, 1, cfg, kinds))

-----------------------------------------------------------------------------
(* preset_translator.py : TranslationEngine                                *)

MAX_CHUNK_SIZE == 8

\* re.sub(triple_backtick_pattern, repl_triple, modified_text): the k-th block
\* becomes the placeholder numbered len(code_blocks) = k - 1
RECURSIVE Preset_sub_triple(_, _, _, _)
Preset_sub_triple(s, matches, k, a) ==
    IF k > Len(matches) THEN From(s, a)
    ELSE Slice(s, a, matches[k][1])
         \o CODE_BLOCK_PLACEHOLDER_PREFIX \o Decimal(k - 1)
         \o Preset_sub_triple(s, matches, k + 1, matches[k][2])

\* matches.sort(key=lambda m: (m['start'], -(m['end'] - m['start']))), stable
Preset_before(x, y) ==
    \/ x.start < y.start
    \/ (x.start = y.start /\ (x.end - x.start) > (y.end - y.start))

RECURSIVE Preset_insert_match(_, _)
Preset_insert_match(sorted, m) ==
    IF sorted = <<>> THEN <<m>>
    ELSE IF Preset_before(m, Head(sorted)) THEN <<m>> \o sorted
    ELSE <<Head(sorted)>> \o Preset_insert_match(Tail(sorted), m)

RECURSIVE Preset_sort_matches(_)
Preset_sort_matches(ms) ==
    IF ms = <<>> THEN <<>>
    ELSE Preset_insert_match(Preset_sort_matches(SubSeq(ms, 1, Len(ms) - 1)), ms[Len(ms)])

\* the loop over reversed(matches); st = [text, blocks, ranges]
RECURSIVE Preset_protect_matches(_, _, _)
Preset_protect_matches(st, matches, k) ==
    IF k = 0 THEN st
    ELSE Bind(matches[k], LAMBDA m :
           LET is_overlapping ==
                 \E r \in 1..Len(st.ranges) :
                     (IF m.start > st.ranges[r][1] THEN m.start ELSE st.ranges[r][1])
                       < (IF m.end < st.ranges[r][2] THEN m.end ELSE st.ranges[r][2])
               placeholder_prefix == IF m.type = "block" THEN CODE_BLOCK_PLACEHOLDER_PREFIX
                                     ELSE INLINE_CODE_PLACEHOLDER_PREFIX
           IN Bind(placeholder_prefix \o Decimal(Len(st.blocks)), LAMBDA placeholder :
              Bind(IF is_overlapping THEN st
                   ELSE [text |-> Slice(st.text, 1, m.start) \o placeholder
                                  \o From(st.text, m.end),
                         blocks |-> Append(st.blocks, <<placeholder, m.text>>),
                         ranges |-> Append(st.ranges, <<m.start, m.end>>)], LAMBDA st1 :
                Preset_protect_matches(st1, matches, k - 1))))

\* _extract_and_protect: the dict code_blocks filled by repl_triple is dropped;
\* the dict returned is current_code_blocks, filled by the second pass only
Preset_extract_and_protect(text) ==
    Bind(ReplaceEach(text, VAR_PLACEHOLDERS), LAMBDA vars_done :
    Bind(FindIter(vars_done,
                  [i \in 1..Len(vars_done) |-> TripleBacktickEnd(vars_done, i)]),
         LAMBDA triple :
    Bind(Preset_sub_triple(vars_done, triple, 1, 1), LAMBDA modified_text :
    Bind(FindIter(modified_text,
                  [i \in 1..Len(modified_text) |-> TripleBacktickEnd(modified_text, i)]),
         LAMBDA blocks :
    Bind(FindIter(modified_text,
                  [i \in 1..Len(modified_text) |-> InlineBacktickEnd(modified_text, i)]),
         LAMBDA inlines :
      LET Match(m, type) == [start |-> m[1], end |-> m[2], type |-> type,
                             text |-> Slice(modified_text, m[1], m[2])]
          is_inside(m) == \E b \in 1..Len(blocks) :
                              blocks[b][1] <= m[1] /\ m[2] <= blocks[b][2]
      IN Bind([b \in 1..Len(blocks) |-> Match(blocks[b], "block")]
              \o SelectSeq([j \in 1..Len(inlines) |-> Match(inlines[j], "inline")],
                           LAMBDA m : ~is_inside(<<m.start, m.end>>)), LAMBDA matches :
         Bind(Preset_sort_matches(matches), LAMBDA sorted :
         Bind(Preset_protect_matches([text |-> modified_text, blocks |-> <<>>,
                                      ranges |-> <<>>], sorted, Len(sorted)), LAMBDA st :
           [text |-> st.text, items |-> st.blocks]))))))))

\* _restore_protected: code blocks in dict order, then the stand-in names
Preset_restore_protected(text, code_blocks) ==
    Bind(ReplaceEach(text, code_blocks), LAMBDA restored :
      ReplaceEach(restored, REVERSED_VAR_PLACEHOLDERS))

\* the word-limit split of one line: groups of max_chunk_size words
RECURSIVE Preset_group_words(_, _)
Preset_group_words(words, size) ==
    IF words = <<>> THEN <<>>
    ELSE IF Len(words) <= size THEN <<Join(SP, words)>>
    ELSE <<Join(SP, SubSeq(words, 1, size))>>
         \o Preset_group_words(SubSeq(words, size + 1, Len(words)), size)

RECURSIVE Preset_chunk_lines(_, _, _)
Preset_chunk_lines(lines, i, size) ==
    IF i > Len(lines) THEN <<>>
    ELSE Bind(lines[i], LAMBDA line :
         Bind(SplitOn(line, " "), LAMBDA words :
           LET own == IF line = <<>> THEN <<>>
                      ELSE IF Len(words) <= size THEN <<line>>
                      ELSE Preset_group_words(words, size)
               newline == IF i < Len(lines) THEN <<NL>> ELSE <<>>
           IN own \o newline \o Preset_chunk_lines(lines, i + 1, size)))

Preset_split_into_chunks(text) ==
    IF text = <<>> THEN <<>>
    ELSE Bind(SplitOn(text, "\n"), LAMBDA lines :
           SelectSeq(Preset_chunk_lines(lines, 1, MAX_CHUNK_SIZE), LAMBDA c : c # <<>>))

\* _preserve_case(original, translated); translated = [none, text]
Preset_preserve_case(original, translated) ==
    IF original = <<>> \/ translated.none \/ translated.text = <<>> THEN translated
    ELSE IF IsUpperStr(original) THEN [translated EXCEPT !.text = StrUpper(@)]
    ELSE IF IsLowerStr(original) THEN [translated EXCEPT !.text = StrLower(@)]
    ELSE IF original[1] \in Range(UpperSeq) /\ translated.text[1] \in Range(LowerSeq)
         THEN [translated EXCEPT !.text[1] = ToUpper(@)]
    ELSE translated

\* re.sub(r'([.,;:])(?=[^\s\)\}\].,;:\'"]|$)', r'\1 ', text): the lookahead also
\* holds at the end of the text and just before a final newline
Preset_sub_space_after_punct(s) ==
    Concat([i \in 1..Len(s) |->
              IF /\ s[i] \in {".", ",", ";", ":"}
                 /\ \/ i = Len(s)
                    \/ (i = Len(s) - 1 /\ s[Len(s)] = "\n")
                    \/ s[i + 1] \notin (SpaceSet \cup
                                        {")", "}", "]", ".", ",", ";", ":", "'", "\""})
              THEN <<s[i], " ">> ELSE <<s[i]>>])

\* re.sub(r'([\[({])\s+', r'\1', text)
Preset_sub_space_after_open(s) ==
    LET keep == [i \in 1..Len(s) |->
                    ~(/\ s[i] \in SpaceSet
                      /\ \E b \in 1..(i - 1) :
                            /\ s[b] \in {"[", "(", "{"}
                            /\ \A k \in (b + 1)..i : s[k] \in SpaceSet)]
    IN SelectFrom(s, keep, 1)

\* re.sub(r'\s+([\])}])', r'\1', text)
Preset_sub_space_before_close(s) ==
    SelectFrom(s, [i \in 1..Len(s) |->
                    ~(/\ s[i] \in SpaceSet
                      /\ Bind(RunEnd(s, i, SpaceSet), LAMBDA e :
                           e <= Len(s) /\ s[e] \in {"]", ")", "}"}))], 1)

\* re.sub(r'^ +| +$', '', text, flags=re.MULTILINE)
Preset_sub_line_edges(s) ==
    SelectFrom(s, [i \in 1..Len(s) |->
                    ~(/\ s[i] = " "
                      /\ Bind(Min({a \in 1..i : \A k \in a..i : s[k] = " "}), LAMBDA first :
                         Bind(RunEnd(s, i, {" "}) - 1, LAMBDA last :
                           \/ first = 1
                           \/ s[first - 1] = "\n"
                           \/ last = Len(s)
                           \/ s[last + 1] = "\n")))], 1)

Preset_post_process_formatting(text) ==
    Bind(SubSpaceBeforePunct(text), LAMBDA t1 :
    Bind(Preset_sub_space_after_punct(t1), LAMBDA t2 :
    Bind(SubSpaceAfter(t2, {".", "!", "?"},
                       SpaceSet \cup {")", "}", "]", "\"", "'", "{", "["}), LAMBDA t3 :
    Bind(SubCapitalizeAfterSentence(t3), LAMBDA t4 :
    Bind(Preset_sub_space_after_open(t4), LAMBDA t5 :
    Bind(Preset_sub_space_before_close(t5), LAMBDA t6 :
    Bind(SubCollapseSpaces(t6), LAMBDA t7 :
    Bind(Preset_sub_line_edges(t7), LAMBDA t8 : Strip(t8)))))))))

\* str.rfind: last index where p occurs, 0 when none
RFind(s, p) ==
    Bind({i \in 1..(Len(s) - Len(p) + 1) : At(s, i, p)}, LAMBDA hits :
      IF hits = {} THEN 0 ELSE Max(hits))

Preset_clean_llm_response(text) ==
    Bind(Strip(text), LAMBDA t0 :
    Bind(Find(t0, NL, 1), LAMBDA first_nl :
    Bind(RFind(t0, NL), LAMBDA last_nl :
    Bind(IF StartsWith(t0, Ticks3) /\ EndsWith(t0, Ticks3)
         THEN IF first_nl # 0 /\ first_nl + 1 < last_nl
              THEN Strip(Slice(t0, first_nl + 1, last_nl))
              ELSE Strip(Replace(t0, Ticks3, <<>>))
         ELSE t0, LAMBDA t1 :
      IF StartsWith(t1, <<BT>>) /\ EndsWith(t1, <<BT>>)
      THEN Slice(t1, 2, Len(t1))
      ELSE t1))))

\* _translate_with_llm(text_chunk, ...): every failure falls back to text_chunk;
\* usable = api key, model and client are all present
Preset_translate_with_llm(text_chunk, usable, kind) ==
    IF ~usable THEN Returned(text_chunk, <<>>)
    ELSE LET request == [text |-> text_chunk, instr |-> "none"]
         IN Bind(BackendReply(kind, text_chunk), LAMBDA reply :
              IF reply.fail \/ reply.none \/ reply.text = <<>>
              THEN Returned(text_chunk, <<request>>)
              ELSE Returned(Preset_clean_llm_response(reply.text), <<request>>))

\* prefix followed by \d+ at index i
PlaceholderEnd(s, i, prefix) ==
    IF ~At(s, i, prefix) THEN 0
    ELSE Bind(RunEnd(s, i + Len(prefix), Range(DigitSeq)), LAMBDA e :
           IF e > i + Len(prefix) THEN e ELSE 0)

\* split_pattern of translate_text at index i: newline, {{...}}, {...}, the two
\* code placeholders and, unless translate_angle, <...>
Preset_split_pattern_end(s, i, translate_angle) ==
    Bind(FirstOf(s, {"}"}, i + 2), LAMBDA close2 :
    Bind(FirstOf(s, {"}"}, i + 1), LAMBDA close1 :
    Bind(FirstOf(s, {">", "\n"}, i + 1), LAMBDA gt :
    Bind(PlaceholderEnd(s, i, CODE_BLOCK_PLACEHOLDER_PREFIX), LAMBDA block :
    Bind(PlaceholderEnd(s, i, INLINE_CODE_PLACEHOLDER_PREFIX), LAMBDA inline :
      IF s[i] = "\n" THEN i + 1
      ELSE IF At(s, i, <<"{", "{">>) /\ close2 # 0 /\ At(s, close2, <<"}", "}">>)
           THEN close2 + 2
      ELSE IF s[i] = "{" /\ close1 # 0 THEN close1 + 1
      ELSE IF block # 0 THEN block
      ELSE IF inline # 0 THEN inline
      ELSE IF ~translate_angle /\ s[i] = "<" /\ gt # 0 /\ s[gt] = ">" THEN gt + 1
      ELSE 0)))))

\* the chunk loop of one segment; st = [parts, sent], parts of [none, text]
RECURSIVE Preset_chunk_loop(_, _, _, _, _)
Preset_chunk_loop(st, chunks, k, google, kinds) ==
    IF k > Len(chunks) THEN st
    ELSE Bind(chunks[k], LAMBDA chunk :
           LET whole(t) == [none |-> FALSE, text |-> t]
           IN Bind(IF chunk = NL \/ Strip(chunk) = <<>>
                   THEN [st EXCEPT !.parts = Append(@, whole(chunk))]
                   ELSE IF ~google THEN [st EXCEPT !.parts = Append(@, whole(chunk))]
                   ELSE Bind(BackendReply(KindAt(kinds, Len(st.sent) + 1), chunk),
                             LAMBDA reply :
                               [parts |-> Append(st.parts,
                                   IF reply.fail THEN whole(chunk)
                                   ELSE Preset_preserve_case(chunk,
                                          [none |-> reply.none, text |-> reply.text])),
                                sent |-> Append(st.sent,
                                                [text |-> chunk, instr |-> "none"])]),
                   LAMBDA next : Preset_chunk_loop(next, chunks, k + 1, google, kinds)))

\* segment reassembly; acc = [text, raised]: part.startswith raises on None
RECURSIVE Preset_reassemble(_, _, _)
Preset_reassemble(acc, parts, i) ==
    IF i > Len(parts) \/ acc.raised THEN acc
    ELSE Bind(parts[i], LAMBDA part :
         Bind(i > 1 /\ ~EndsWith(acc.text, NL) /\ ~EndsWith(acc.text, SP), LAMBDA open :
           IF open /\ part.none THEN [acc EXCEPT !.raised = TRUE]
           ELSE Bind([acc EXCEPT !.text = @ \o (IF open /\ ~StartsWith(part.text, SP)
                                                THEN SP ELSE <<>>)
                                            \o (IF part.none THEN <<>> ELSE part.text)],
                     LAMBDA acc1 : Preset_reassemble(acc1, parts, i + 1))))

\* the segment loop of the Google branch; st = [text, sent, raised]
RECURSIVE Preset_segment_loop(_, _, _, _, _)
Preset_segment_loop(st, segments, k, google, kinds) ==
    IF k > Len(segments) \/ st.raised THEN st
    ELSE Bind(segments[k], LAMBDA segment :
         Bind(IF segment.text = <<>> THEN st
              ELSE IF segment.delim THEN [st EXCEPT !.text = @ \o segment.text]
              ELSE Bind(Preset_chunk_loop([parts |-> <<>>, sent |-> st.sent],
                                          Preset_split_into_chunks(segment.text), 1,
                                          google, kinds), LAMBDA done :
                   Bind(Preset_reassemble([text |-> <<>>, raised |-> FALSE],
                                          done.parts, 1), LAMBDA joined :
                     [text |-> st.text \o joined.text, sent |-> done.sent,
                      raised |-> joined.raised])),
              LAMBDA next : Preset_segment_loop(next, segments, k + 1, google, kinds)))

\* translate_text; cfg = [use_llm, usable, lang_name, translate_angle, google]
Preset_translate_text(text, cfg, kinds) ==
    IF Strip(text) = <<>> THEN Returned(text, <<>>)
    ELSE Bind(Preset_extract_and_protect(text), LAMBDA p :
           LET finish(t) ==
                 Preset_post_process_formatting(Preset_restore_protected(t, p.items))
           IN IF cfg.use_llm
              THEN IF ~cfg.lang_name
                   THEN Returned(Preset_restore_protected(p.text, p.items), <<>>)
                   ELSE Bind(Preset_translate_with_llm(p.text, cfg.usable,
                                                       KindAt(kinds, 1)), LAMBDA llm :
                        Bind(Preset_preserve_case(p.text,
                                 [none |-> FALSE, text |-> llm.out]), LAMBDA cased :
                          Returned(finish(cased.text), llm.sent)))
              ELSE Bind(FindIter(p.text, [i \in 1..Len(p.text) |->
                           Preset_split_pattern_end(p.text, i, cfg.translate_angle)]),
                        LAMBDA delims :
                   Bind(SplitKeep(p.text, delims), LAMBDA segments :
                   Bind(Preset_segment_loop([text |-> <<>>, sent |-> <<>>,
                                             raised |-> FALSE],
                                            segments, 1, cfg.google, kinds), LAMBDA done :
                     IF done.raised THEN Raised(done.sent)
                     ELSE Returned(finish(done.text), done.sent)))))

-----------------------------------------------------------------------------
(* card_translator.py : CharacterProcessor, and lib/mymemory_translator.py  *)

newline_placeholder == <<"X","Z","N","E","W","L","I","N","E","Z","X">>
XZIMG == <<"X","Z","I","M","G">>
XZVAR == <<"X","Z","V","A","R">>
XZANGULAR == <<"X","Z","A","N","G","U","L","A","R">>
ZX == <<"Z","X">>

\* img_pattern r'(!\[[^\]]*\]\([^)]+\))' at index i
Card_img_end(s, i) ==
    Bind(FirstOf(s, {"]"}, i + 2), LAMBDA close :
    Bind(FirstOf(s, {")"}, close + 3), LAMBDA paren :
      IF /\ At(s, i, <<"!", "[">>) /\ close # 0
         /\ At(s, close + 1, <<"(">>)
         /\ close + 2 <= Len(s) /\ s[close + 2] # ")"
         /\ paren # 0
      THEN paren + 1 ELSE 0))

\* var_pattern r'(\{\{[^{}]+\}\})' at index i
Card_var_end(s, i) ==
    Bind(FirstOf(s, {"{", "}"}, i + 2), LAMBDA stop :
      IF At(s, i, <<"{", "{">>) /\ stop > i + 2 /\ At(s, stop, <<"}", "}">>)
      THEN stop + 2 ELSE 0)

\* angular_pattern r'(<[^<>]*>)' at index i
Card_angular_end(s, i) ==
    Bind(FirstOf(s, {"<", ">"}, i + 1), LAMBDA stop :
      IF At(s, i, <<"<">>) /\ stop # 0 /\ s[stop] = ">" THEN stop + 1 ELSE 0)

\* the loops "for i, match in enumerate(re.finditer(pattern, processed_text))":
\* the matches are those of the text the loop started with, each replaced at
\* its first occurrence in the current text by prefix, i and ZX
RECURSIVE Card_protect_loop(_, _, _, _, _)
Card_protect_loop(st, orig, matches, k, prefix) ==
    IF k > Len(matches) THEN st
    ELSE Bind(Slice(orig, matches[k][1], matches[k][2]), LAMBDA found :
         Bind(prefix \o Decimal(k - 1) \o ZX, LAMBDA placeholder :
         Bind([text |-> ReplaceFirst(st.text, found, placeholder),
               items |-> Append(st.items, <<placeholder, found>>)], LAMBDA st1 :
           Card_protect_loop(st1, orig, matches, k + 1, prefix))))

Card_protect(text, me, prefix) ==
    Bind(FindIter(text, me), LAMBDA matches :
      Card_protect_loop([text |-> text, items |-> <<>>], text, matches, 1, prefix))

\* c, one or more characters other than c (as few as possible), c :
\* r'\*[^\*]+?\*' and its backtick, quote and underscore forms
Card_single_end(s, i, c) ==
    Bind(FirstOf(s, {c}, i + 2), LAMBDA close :
      IF At(s, i, <<c>>) /\ i + 1 <= Len(s) /\ s[i + 1] # c /\ close # 0
      THEN close + 1 ELSE 0)

\* cc, one or more characters other than c, cc : r'\*\*[^\*]+?\*\*', r'__[^_]+?__'
Card_double_end(s, i, c) ==
    Bind(FirstOf(s, {c}, i + 3), LAMBDA close :
      IF /\ At(s, i, <<c, c>>) /\ i + 2 <= Len(s) /\ s[i + 2] # c
         /\ close # 0 /\ At(s, close, <<c, c>>)
      THEN close + 2 ELSE 0)

\* r'```[\s\S]+?```' at index i
Card_fence_end(s, i) ==
    IF ~At(s, i, Ticks3) THEN 0
    ELSE Bind(Find(s, Ticks3, i + 4), LAMBDA close :
           IF close # 0 THEN close + 3 ELSE 0)

\* combined_pattern: the seven delimiter_patterns, tried in list order
Card_delimiter_end(s, i) ==
    Bind(Card_single_end(s, i, "*"), LAMBDA e1 : IF e1 # 0 THEN e1 ELSE
    Bind(Card_double_end(s, i, "*"), LAMBDA e2 : IF e2 # 0 THEN e2 ELSE
    Bind(Card_single_end(s, i, BT), LAMBDA e3 : IF e3 # 0 THEN e3 ELSE
    Bind(Card_fence_end(s, i), LAMBDA e4 : IF e4 # 0 THEN e4 ELSE
    Bind(Card_single_end(s, i, "\""), LAMBDA e5 : IF e5 # 0 THEN e5 ELSE
    Bind(Card_single_end(s, i, "_"), LAMBDA e6 : IF e6 # 0 THEN e6 ELSE
      Card_double_end(s, i, "_")))))))

\* the list parts of translate_segment: text between the delimiter matches
\* (empty pieces dropped) and the delimiter matches
RECURSIVE Card_parts(_, _, _)
Card_parts(s, matches, last_end) ==
    IF matches = <<>>
    THEN IF last_end <= Len(s) THEN <<[kind |-> "text", raw |-> From(s, last_end)]>>
         ELSE <<>>
    ELSE (IF Head(matches)[1] > last_end
          THEN <<[kind |-> "text", raw |-> Slice(s, last_end, Head(matches)[1])]>>
          ELSE <<>>)
         \o <<[kind |-> "delimiter", raw |-> Slice(s, Head(matches)[1], Head(matches)[2])]>>
         \o Card_parts(s, Tail(matches), Head(matches)[2])

\* the target languages of the model, two of the keys of LANGUAGES
Langs == {"pt", "es"}
\* EN_INTERFACE_OTHERS
EN_INTERFACE_OTHERS(lang) ==
    IF lang = "pt" THEN <<"P","o","r","t","u","g","u","e","s","e">>
    ELSE <<"S","p","a","n","i","s","h">>

\* A translation into lang: as Translate, with other letters for "es", so that
\* the results for two target languages differ
TrCharTo(lang, c) ==
    IF lang = "pt" THEN TrChar(c)
    ELSE CASE c = "t" -> "k"
           [] c = "T" -> "K"
           [] OTHER -> c
TranslateTo(lang, req) == [i \in 1..Len(req) |-> TrCharTo(lang, req[i])]

\* the pieces of the prompt built by translate_text (use_english_instructions)
PromptSystem ==
    <<"S","y","s","t","e","m",":"," ","Y","o","u","'","r","e"," ","a"," ","t","r",
      "a","n","s","l","a","t","o","r","."," ","T","r","a","n","s","l","a","t","e",
      " ","t","h","e"," ","c","o","n","t","e","n","t"," ","t","o"," ">>
PromptUser ==
    <<"\n","U","s","e","r",":"," ","C","o","n","t","e","n","t",":","\n">> \o Ticks3

\* prompt of translate_text; cs is the processor's settings record.  With
\* use_english_instructions the fixed English texts follow "Roleplay." with no
\* space and the gender sentence comes from choice_gender; without it the
\* texts of load_llm_instructions (here the defaults, no llm_instructions
\* being configured for the language) are joined by spaces and the gender
\* sentence is the stored user_gender_instruction
Card_prompt(text, char_name, cs) ==
    LET
        PromptFormatting ==
            <<" ","u","s","i","n","g"," ","t","h","e"," ","s","a","m","e"," ","f","o","r",
              "m","a","t","t","i","n","g"," ","u","s","e","d"," ","i","n"," ","R","o","l",
              "e","p","l","a","y",".">>
        PromptAngleYes ==
            <<"T","r","a","n","s","l","a","t","e"," ","a","l","s","o"," ","t","e","x","t",
              "s"," ","i","n","s","i","d","e"," ","<",".",".",".",">",".">>
        PromptAngleNo ==
            <<"D","o"," ","n","o","t"," ","t","r","a","n","s","l","a","t","e"," ","t","e",
              "x","t","s"," ","i","n","s","i","d","e"," ","<",">",";"," ","M","a","i","n",
              "t","a","i","n"," ","<",".",".",".",">"," ","o","r","i","g","i","n","a","l",
              "."," ","D","o"," ","n","o","t"," ","t","r","a","n","s","l","a","t","e"," ",
              "t","e","x","t","s"," ","i","n","s","i","d","e"," ","{","{","}","}",";"," ",
              "M","a","i","n","t","a","i","n"," ","{","{",".",".",".","}","}"," ","o","r",
              "i","g","i","n","a","l",".">>
        PromptNameYes ==
            <<"I","n","c","l","u","d","e"," ","n","a","m","e","s"," ","t","r","a","n","s",
              "l","a","t","i","o","n">>
        PromptNameNo ==
            <<"D","o"," ","n","o","t"," ","t","r","a","n","s","l","a","t","e"," ","t","h",
              "e"," ","t","e","x","t",":"," ">>
        PromptMale ==
            <<" ","{","{","u","s","e","r","}","}"," ","i","s"," ","m","a","l","e",".">>
        PromptFemale ==
            <<" ","{","{","u","s","e","r","}","}"," ","i","s"," ","f","e","m","a","l","e",
              ".">>
    IN
       PromptSystem \o EN_INTERFACE_OTHERS(cs.target_lang) \o PromptFormatting
       \o (IF cs.use_english_instructions THEN <<>> ELSE SP)
       \o (IF cs.translate_angle THEN PromptAngleYes ELSE PromptAngleNo) \o SP
       \o (IF char_name = <<>> THEN <<>>
           ELSE IF cs.translate_name THEN PromptNameYes
           ELSE PromptNameNo \o char_name \o <<".">>)
       \o (IF cs.use_english_instructions
           THEN (IF cs.choice_gender = "1" THEN PromptMale
                 ELSE IF cs.choice_gender = "2" THEN PromptFemale ELSE <<>>)
           ELSE (IF cs.user_gender_instruction = <<>> THEN <<>>
                 ELSE SP \o cs.user_gender_instruction))
       \o PromptUser \o text \o Ticks3

\* What a language model is asked by a payload: a prompt of the form above asks
\* for its content in the language it names; a payload of any other form names
\* no language, and the answer to it is the payload as it is.
Card_llm_is_prompt(payload) ==
    /\ StartsWith(payload, PromptSystem)
    /\ Find(payload, PromptUser, 1) # 0
    /\ EndsWith(payload, Ticks3)
Card_llm_content(payload) ==
    IF Card_llm_is_prompt(payload)
    THEN Bind(Find(payload, PromptUser, 1), LAMBDA user :
           Slice(payload, user + Len(PromptUser), Len(payload) - 2))
    ELSE payload
Card_llm_answer(payload) ==
    IF ~Card_llm_is_prompt(payload) THEN payload
    ELSE Bind(Card_llm_content(payload), LAMBDA content :
           IF At(payload, Len(PromptSystem) + 1, EN_INTERFACE_OTHERS("pt"))
           THEN TranslateTo("pt", content)
           ELSE TranslateTo("es", content))

CardReplyKinds == ReplyKinds \cup {"fenced"}

\* the reply of the remote service behind self.translator; fenced is a language
\* model that wraps its answer in a code fence
Card_backend_reply(translator, kind, payload, dest) ==
    LET answer == IF translator = "llm" THEN Card_llm_answer(payload)
                  ELSE TranslateTo(dest, payload)
    IN CASE kind = "ok"     -> [fail |-> FALSE, none |-> FALSE, text |-> answer]
         [] kind = "lower"  -> [fail |-> FALSE, none |-> FALSE, text |-> StrLower(answer)]
         [] kind = "upper"  -> [fail |-> FALSE, none |-> FALSE, text |-> StrUpper(answer)]
         [] kind = "small"  -> [fail |-> FALSE, none |-> FALSE,
                                text |-> SmallLetters(answer)]
         [] kind = "fenced" -> [fail |-> FALSE, none |-> FALSE,
                                text |-> IF translator = "llm"
                                         THEN Ticks3 \o answer \o Ticks3 ELSE answer]
         [] kind = "echo"   -> [fail |-> FALSE, none |-> FALSE,
                                text |-> IF translator = "llm"
                                         THEN Card_llm_content(payload) ELSE payload]
         [] kind = "empty"  -> [fail |-> FALSE, none |-> FALSE, text |-> <<>>]
         [] kind = "none"   -> [fail |-> FALSE, none |-> TRUE,  text |-> <<>>]
         \* replies that lay the answer out in other lines than the payload
         [] kind = "lines"  -> [fail |-> FALSE, none |-> FALSE,
                                text |-> answer \o <<"\n">> \o answer]
         [] kind = "trailing" -> [fail |-> FALSE, none |-> FALSE,
                                  text |-> answer \o <<"\n", "\n">>]
         [] kind = "joined" -> [fail |-> FALSE, none |-> FALSE,
                                text |-> [i \in 1..Len(answer) |->
                                            IF answer[i] = "\n" THEN " " ELSE answer[i]]]
         [] OTHER           -> [fail |-> TRUE,  none |-> FALSE, text |-> <<>>]

\* word[i:i+chunk_size] for i in range(0, len(word), chunk_size)
RECURSIVE CutEvery(_, _)
CutEvery(word, size) ==
    IF Len(word) <= size THEN <<word>>
    ELSE <<SubSeq(word, 1, size)>> \o CutEvery(SubSeq(word, size + 1, Len(word)), size)

\* the loop of split_text over words; st = [chunks, current]
RECURSIVE MyMemory_split_loop(_, _, _, _)
MyMemory_split_loop(st, words, k, chunk_size) ==
    IF k > Len(words)
    THEN IF st.current # <<>> THEN Append(st.chunks, st.current) ELSE st.chunks
    ELSE Bind(words[k], LAMBDA word :
           LET flushed == IF st.current # <<>> THEN Append(st.chunks, st.current)
                          ELSE st.chunks
           IN Bind(IF Len(word) > chunk_size
                   THEN [chunks |-> flushed \o CutEvery(word, chunk_size),
                         current |-> <<>>]
                   ELSE IF st.current = <<>> THEN [st EXCEPT !.current = word]
                   ELSE IF Len(st.current) + Len(word) + 1 <= chunk_size
                        THEN [st EXCEPT !.current = @ \o SP \o word]
                   ELSE [chunks |-> Append(st.chunks, st.current), current |-> word],
                   LAMBDA next : MyMemory_split_loop(next, words, k + 1, chunk_size)))

MyMemory_split_text(text, chunk_size) ==
    Bind(SplitWords(text), LAMBDA words :
      MyMemory_split_loop([chunks |-> <<>>, current |-> <<>>], words, 1, chunk_size))

MyMemory_chunk_size == 499
\* the language the remote service translates into for a target code
MyMemory_target_lang(target) == IF target = "pt-BR" THEN "pt" ELSE "es"

\* [translator.translate(chunk) for chunk in chunks]; st = [fail, texts, sent]:
\* a call that raises ends the list comprehension
RECURSIVE MyMemory_chunk_calls(_, _, _, _, _)
MyMemory_chunk_calls(st, chunks, k, target, kinds) ==
    IF k > Len(chunks) \/ st.fail THEN st
    ELSE Bind(Card_backend_reply("mymemory", KindAt(kinds, Len(st.sent) + 1),
                                 chunks[k], MyMemory_target_lang(target)), LAMBDA reply :
         Bind([fail |-> reply.fail,
               texts |-> Append(st.texts, [none |-> reply.none, text |-> reply.text]),
               sent |-> Append(st.sent, [text |-> chunks[k], instr |-> target])],
              LAMBDA st1 : MyMemory_chunk_calls(st1, chunks, k + 1, target, kinds)))

\* src = detect(text) of MyMemoryTranslatorService.translate: langdetect finds
\* no feature in a text without a letter and raises LangDetectException
MyMemory_detect_raises(text) == \A i \in 1..Len(text) : text[i] \notin Letters

\* self.translator.translate(payload, dest=...): the reply object's text, or the
\* exception; reqs are the requests made so far.  Result [fail, none, text, sent].
\* MyMemoryTranslatorService detects the source language before it builds the
\* translator and makes any request
Card_translator_translate(translator, payload, dest, reqs, kinds) ==
    LET kind == KindAt(kinds, Len(reqs) + 1)
        target == IF dest = "pt" THEN "pt-BR" ELSE "eo-EU"
    IN IF translator = "llm"
       THEN Bind(Card_backend_reply("llm", kind, payload, dest), LAMBDA llm :
              [fail |-> llm.fail, none |-> llm.none, text |-> llm.text,
               sent |-> Append(reqs, [text |-> payload, instr |-> "prompt"])])
       ELSE IF MyMemory_detect_raises(payload)
       THEN [fail |-> TRUE, none |-> FALSE, text |-> <<>>, sent |-> reqs]
       ELSE IF Len(payload) <= MyMemory_chunk_size
       THEN Bind(Card_backend_reply("mymemory", kind, payload,
                                    MyMemory_target_lang(target)), LAMBDA whole :
              [fail |-> whole.fail, none |-> whole.none, text |-> whole.text,
               sent |-> Append(reqs, [text |-> payload, instr |-> target])])
       ELSE Bind(MyMemory_chunk_calls([fail |-> FALSE, texts |-> <<>>, sent |-> reqs],
                                      MyMemory_split_text(payload, MyMemory_chunk_size),
                                      1, target, kinds), LAMBDA calls :
              [fail |-> calls.fail \/ \E i \in 1..Len(calls.texts) : calls.texts[i].none,
               none |-> FALSE,
               text |-> Concat([i \in 1..Len(calls.texts) |-> calls.texts[i].text]),
               sent |-> calls.sent])

\* one guarded "translate, then restore the case" of translate_segment on content:
\* [failed, none, text, sent]; failed = an exception reached the except clause
\* (the call raised, or upper/lower was applied to None)
Card_translate_cased(content, cs, reqs, kinds) ==
    Bind(Card_translator_translate(cs.translator, content, cs.target_lang, reqs, kinds),
         LAMBDA r :
           [failed |-> r.fail \/ (r.none /\ (IsUpperStr(content) \/ IsLowerStr(content))),
            none |-> r.none,
            text |-> IF IsUpperStr(content) THEN StrUpper(r.text)
                     ELSE IF IsLowerStr(content) THEN StrLower(r.text)
                     ELSE r.text,
            sent |-> r.sent])

\* f"{value}" : None is written as the word None
Format(value) == IF value.none THEN <<"N","o","n","e">> ELSE value.text

\* a 'text' part; st = [text, sent], placeholders = the keys of image_links,
\* protected_vars and protected_angular
Card_text_part(st, raw_text, placeholders, cs, kinds) ==
    Bind(Strip(raw_text), LAMBDA stripped_text :
      LET leading_spaces == Len(raw_text) - Len(LStrip(raw_text))
          trailing_spaces == Len(raw_text) - Len(RStrip(raw_text))
          kept == \/ Contains(stripped_text, newline_placeholder)
                  \/ \E k \in 1..Len(placeholders) :
                         Contains(stripped_text, placeholders[k])
      IN IF stripped_text = <<>> \/ kept THEN [st EXCEPT !.text = @ \o raw_text]
         ELSE Bind(Card_translate_cased(stripped_text, cs, st.sent, kinds), LAMBDA t :
                IF t.failed \/ t.none
                THEN [text |-> st.text \o raw_text, sent |-> t.sent]
                ELSE [text |-> st.text \o Spaces(leading_spaces) \o t.text
                               \o Spaces(trailing_spaces),
                      sent |-> t.sent]))

\* a 'delimiter' part
Card_delimiter_part(st, part_text, cs, kinds) ==
    LET n == Len(part_text)
        starts(pre) == StartsWith(part_text, pre)
        ends(suf) == EndsWith(part_text, suf)
        both(m) == starts(m) /\ ends(m)
        fence == starts(Ticks3) /\ ends(Ticks3)
    IN Bind(IF starts(<<BT>>) THEN (IF fence THEN Ticks3 ELSE <<BT>>)
            ELSE IF both(<<"*">>)
                 THEN (IF both(<<"*", "*">>) THEN <<"*", "*">> ELSE <<"*">>)
            ELSE IF both(<<"_">>)
                 THEN (IF both(<<"_", "_">>) THEN <<"_", "_">> ELSE <<"_">>)
            ELSE IF both(<<"\"">>) THEN <<"\"">>
            ELSE <<>>, LAMBDA opening :
         IF Contains(part_text, newline_placeholder) \/ opening = <<>>
         THEN [st EXCEPT !.text = @ \o part_text]
         ELSE Bind(Card_translate_cased(
                       Slice(part_text, Len(opening) + 1, n - Len(opening) + 1),
                       cs, st.sent, kinds), LAMBDA t :
                IF t.failed THEN [text |-> st.text \o part_text, sent |-> t.sent]
                ELSE [text |-> st.text \o opening \o Format(t) \o opening,
                      sent |-> t.sent]))

\* the loop "for part in parts"
RECURSIVE Card_process_parts(_, _, _, _, _, _)
Card_process_parts(st, parts, k, placeholders, cs, kinds) ==
    IF k > Len(parts) THEN st
    ELSE Bind(IF parts[k].kind = "text"
              THEN Card_text_part(st, parts[k].raw, placeholders, cs, kinds)
              ELSE Card_delimiter_part(st, parts[k].raw, cs, kinds), LAMBDA st1 :
           Card_process_parts(st1, parts, k + 1, placeholders, cs, kinds))

\* re.sub(r'([*_"`\)])[ ]{2,}([^*_"`\)])', r'\1\n\2', text): the run of spaces
\* gives its last space to the second group when what follows the run cannot be it
Card_sub_after_delimiter(s) ==
    LET CloseDelims == {"*", "_", "\"", BT, ")"}
    IN Bind(FindIter(s, [i \in 1..Len(s) |->
                 Bind(RunEnd(s, i + 1, {" "}), LAMBDA run :
                   IF s[i] \in CloseDelims /\ run - (i + 1) >= 2
                   THEN IF run <= Len(s) /\ s[run] \notin CloseDelims THEN run + 1
                        ELSE IF run - (i + 1) >= 3 THEN run
                        ELSE 0
                   ELSE 0)]), LAMBDA matches :
         SubMatches(s, matches,
                    [k \in 1..Len(matches) |->
                         <<s[matches[k][1]], "\n", s[matches[k][2] - 1]>>]))

\* re.sub(r'([^*_"`\(])[ ]{2,}([*_"`\(])', r'\1\n\2', text)
Card_sub_before_delimiter(s) ==
    LET OpenDelims == {"*", "_", "\"", BT, "("}
    IN Bind(FindIter(s, [i \in 1..Len(s) |->
                 Bind(RunEnd(s, i + 1, {" "}), LAMBDA run :
                   IF /\ s[i] \notin OpenDelims /\ run - (i + 1) >= 2
                      /\ run <= Len(s) /\ s[run] \in OpenDelims
                   THEN run + 1 ELSE 0)]), LAMBDA matches :
         SubMatches(s, matches,
                    [k \in 1..Len(matches) |->
                         <<s[matches[k][1]], "\n", s[matches[k][2] - 1]>>]))

\* translate_segment up to its list parts: the protections of image links,
\* variables and angle tags, the delimiter matches of one re.finditer pass over
\* the protected text, and the parts between and at the matches
Card_segment_prepare(text, char_name, cs) ==
    Bind(Replace(text, <<"\\", "n">>, newline_placeholder), LAMBDA t0 :
    Bind(Card_protect(t0, [i \in 1..Len(t0) |-> Card_img_end(t0, i)], XZIMG), LAMBDA img :
    Bind(Contains(img.text, VarUser), LAMBDA has_user_var :
    Bind(Contains(img.text, VarChar), LAMBDA has_char_var :
    Bind(IF char_name # <<>> /\ cs.use_char_name THEN char_name ELSE Jane,
         LAMBDA char_placeholder_name :
    Bind(IF has_user_var THEN Replace(img.text, VarUser, James) ELSE img.text, LAMBDA t1 :
    Bind(IF has_char_var THEN Replace(t1, VarChar, char_placeholder_name) ELSE t1,
         LAMBDA t2 :
    Bind(Card_protect(t2, [i \in 1..Len(t2) |-> Card_var_end(t2, i)], XZVAR), LAMBDA var :
    Bind(IF cs.translate_angle
         THEN Card_protect(var.text,
                  [i \in 1..Len(var.text) |-> Card_angular_end(var.text, i)], XZANGULAR)
         ELSE [text |-> var.text, items |-> <<>>], LAMBDA ang :
    Bind(ang.text, LAMBDA processed_text :
    Bind(FindIter(processed_text, [i \in 1..Len(processed_text) |->
                                     Card_delimiter_end(processed_text, i)]),
         LAMBDA delimiters :
      [img |-> img.items, var |-> var.items, ang |-> ang.items,
       has_user_var |-> has_user_var, has_char_var |-> has_char_var,
       char_placeholder_name |-> char_placeholder_name,
       parts |-> Card_parts(processed_text, delimiters, 1)])))))))))))

\* translate_segment(text, char_name); cs = the processor's settings,
\* char_name = <<>> stands for None
Card_translate_segment(text, char_name, cs, kinds) ==
    IF text = <<>> THEN Returned(text, <<>>)
    ELSE
      Bind(Card_segment_prepare(text, char_name, cs), LAMBDA pre :
        LET keys(items) == [k \in 1..Len(items) |-> items[k][1]]
            restore(final_text) ==
              Bind(Replace(final_text, newline_placeholder, NL), LAMBDA f1 :
              Bind(ReplaceEach(f1, pre.var), LAMBDA f2a :
              Bind(ReplaceEach(f2a, pre.ang), LAMBDA f2b :
              Bind(ReplaceEach(f2b, pre.img), LAMBDA f2 :
              Bind(IF pre.has_user_var THEN Replace(f2, James, VarUser) ELSE f2,
                   LAMBDA f3 :
              Bind(IF pre.has_char_var
                   THEN Replace(f3, pre.char_placeholder_name, VarChar) ELSE f3,
                   LAMBDA f4 :
                Card_sub_before_delimiter(Card_sub_after_delimiter(f4))))))))
        IN Bind(Card_process_parts([text |-> <<>>, sent |-> <<>>], pre.parts, 1,
                    keys(pre.img) \o keys(pre.var) \o keys(pre.ang), cs, kinds),
                LAMBDA done : Returned(restore(done.text), done.sent)))

\* MAX_LENGTH of recursive_translate
MAX_LENGTH == 4000

\* text.count('\n')
CountNewlines(s) == Cardinality({i \in 1..Len(s) : s[i] = "\n"})

\* while translated.count('\n') > original_newlines and translated.endswith('\n'):
\*     translated = translated[:-1]
TrimNewlines(translated, original_newlines) ==
    Bind(Len(translated) - Max({0} \cup {j \in 1..Len(translated) : translated[j] # "\n"}),
         LAMBDA trailing :
    Bind(CountNewlines(translated) - original_newlines, LAMBDA excess :
      Slice(translated, 1,
            Len(translated) - (IF trailing < excess THEN trailing ELSE excess) + 1)))

\* the last part of recursive_translate: no delimiter pair was found
Card_translate_plain(text, cs, reqs, kinds) ==
    Bind(Card_translator_translate(cs.translator, text, cs.target_lang, reqs, kinds),
         LAMBDA r :
           \* a call that raised, or None.count, ends in the except clause
           IF r.fail \/ r.none THEN Returned(text, r.sent)
           ELSE Bind(CountNewlines(text), LAMBDA original_newlines :
                Bind(CountNewlines(r.text), LAMBDA translated_newlines :
                Bind(IF original_newlines > translated_newlines
                     THEN r.text \o [i \in 1..(original_newlines - translated_newlines)
                                       |-> "\n"]
                     ELSE IF translated_newlines > original_newlines
                     THEN TrimNewlines(r.text, original_newlines)
                     ELSE r.text, LAMBDA translated :
                  Returned(IF translated # <<>> /\ translated # <<"N","o","n","e">>
                           THEN translated ELSE text, r.sent)))))

\* a segmenter that closes an opening run without a later copy at the end of
\* the text
Card_first_pair_closing(text) ==
    LET pair(c) ==
            Bind(FirstOf(text, {c}, 1), LAMBDA start_pos :
              IF start_pos = 0 THEN [found |-> FALSE]
              ELSE Bind(Slice(text, start_pos, RunEnd(text, start_pos, {c})),
                        LAMBDA opening :
                   Bind(Find(text, opening, start_pos + Len(opening)), LAMBDA end_pos :
                     [found |-> TRUE, start_pos |-> start_pos, opening |-> opening,
                      end_pos |-> IF end_pos = 0 THEN Len(text) + 1 ELSE end_pos])))
    IN IF pair("*").found THEN pair("*") ELSE pair("\"")

\* the first pair of recursive_translate's delimiter_patterns that opens and
\* closes in text: [found, start_pos, opening, end_pos]; a pattern whose opening
\* run has no later copy is passed over
Card_first_pair(text) ==
    LET pair(c) ==
            Bind(FirstOf(text, {c}, 1), LAMBDA start_pos :
              IF start_pos = 0 THEN [found |-> FALSE]
              ELSE Bind(Slice(text, start_pos, RunEnd(text, start_pos, {c})),
                        LAMBDA opening :
                   Bind(Find(text, opening, start_pos + Len(opening)), LAMBDA end_pos :
                     IF end_pos = 0 THEN [found |-> FALSE]
                     ELSE [found |-> TRUE, start_pos |-> start_pos,
                           opening |-> opening, end_pos |-> end_pos])))
    IN IF pair("*").found THEN pair("*") ELSE pair("\"")

\* the split recursive_translate makes of text: the delimited pairs it finds,
\* each the first pair of what follows the pair before it, and the text before
\* and after them; the content of a pair is split by the call made for it
RECURSIVE Card_recursive_parts(_)
Card_recursive_parts(text) ==
    IF text = <<>> THEN <<>>
    ELSE Bind(Card_first_pair(text), LAMBDA p :
      IF ~p.found THEN <<[kind |-> "text", raw |-> text]>>
      ELSE (IF p.start_pos > 1
            THEN <<[kind |-> "text", raw |-> Slice(text, 1, p.start_pos)]>>
            ELSE <<>>)
           \o <<[kind |-> "delimiter",
                 raw |-> Slice(text, p.start_pos, p.end_pos + Len(p.opening))]>>
           \o Card_recursive_parts(From(text, p.end_pos + Len(p.opening))))

\* recursive_translate(text, char_name) after reqs requests: [out, raised, sent]
RECURSIVE Card_recursive_translate(_, _, _, _, _)
Card_recursive_translate(text, char_name, cs, reqs, kinds) ==
    IF text = <<>> \/ \A i \in 1..Len(text) : text[i] \in SpaceSet
    THEN Returned(text, reqs)
    ELSE IF Len(text) > MAX_LENGTH
    THEN Bind(Card_translate_segment(text, char_name, cs, ShiftKinds(kinds, Len(reqs))),
              LAMBDA seg : [seg EXCEPT !.sent = reqs \o @])
    ELSE Bind(Card_first_pair(text), LAMBDA p :
      IF ~p.found THEN Card_translate_plain(text, cs, reqs, kinds)
      ELSE
        Bind(Slice(text, 1, p.start_pos), LAMBDA before :
        Bind(Slice(text, p.start_pos + Len(p.opening), p.end_pos), LAMBDA content :
        Bind(From(text, p.end_pos + Len(p.opening)), LAMBDA after :
        Bind(IF Strip(before) = <<>>
             THEN [text |-> before, sent |-> reqs]
             ELSE Bind(Card_translator_translate(cs.translator, before, cs.target_lang,
                                                 reqs, kinds), LAMBDA r :
                    [text |-> IF r.fail THEN before ELSE Format(r), sent |-> r.sent]),
             LAMBDA translated_before :
        Bind(Card_recursive_translate(content, char_name, cs, translated_before.sent,
                                      kinds), LAMBDA translated_content :
        Bind(Card_recursive_translate(after, char_name, cs, translated_content.sent,
                                      kinds), LAMBDA translated_after :
          [out |-> translated_before.text \o p.opening \o translated_content.out
                     \o p.opening \o translated_after.out,
           raised |-> translated_content.raised \/ translated_after.raised,
           sent |-> translated_after.sent])))))))

\* re.match(r'(\{\{char\}\})\s+([^(]+)\(([^)]+)\)(.*)', line):
\* [matched, prop_name (stripped), prop_value, suffix]
Card_match_property(line) ==
    LET a == Len(VarChar) + 1
    IN Bind(RunEnd(line, a, SpaceSet), LAMBDA e :
       Bind(FirstOf(line, {"("}, a), LAMBDA p :
       Bind(IF e < p THEN e ELSE e - 1, LAMBDA g2 :
       Bind(FirstOf(line, {")"}, p + 2), LAMBDA q :
         IF /\ StartsWith(line, VarChar) /\ e > a /\ p # 0 /\ g2 > a
            /\ p + 1 <= Len(line) /\ line[p + 1] # ")" /\ q # 0
         THEN [matched |-> TRUE, prop_name |-> Strip(Slice(line, g2, p)),
               prop_value |-> Slice(line, p + 1, q), suffix |-> From(line, q + 1)]
         ELSE [matched |-> FALSE, prop_name |-> <<>>, prop_value |-> <<>>,
               suffix |-> <<>>]))))

\* the guarded loop over the comma-separated values; st = [values, sent]
RECURSIVE Card_translate_values(_, _, _, _, _)
Card_translate_values(st, values, k, cs, kinds) ==
    IF k > Len(values) THEN st
    ELSE Bind(Strip(values[k]), LAMBDA v :
         Bind(Card_translator_translate(cs.translator, v, cs.target_lang, st.sent, kinds),
              LAMBDA r :
         Bind([values |-> Append(st.values,
                                 IF r.fail THEN [none |-> FALSE, text |-> v]
                                 ELSE [none |-> r.none, text |-> r.text]),
               sent |-> r.sent], LAMBDA st1 :
           Card_translate_values(st1, values, k + 1, cs, kinds))))

\* one line of a card; st = [lines, sent, raised], lines of [none, text]
Card_translate_line(st, line, cs, kinds) ==
    LET whole(t) == [none |-> FALSE, text |-> t]
    IN Bind(Card_match_property(line), LAMBDA m :
         IF ~m.matched
         THEN Bind(Card_translator_translate(cs.translator, line, cs.target_lang,
                                             st.sent, kinds), LAMBDA plain :
                [lines |-> Append(st.lines,
                                  IF plain.fail THEN whole(line)
                                  ELSE [none |-> plain.none, text |-> plain.text]),
                 sent |-> plain.sent, raised |-> FALSE])
         ELSE
           Bind(Card_translator_translate(cs.translator, m.prop_name, cs.target_lang,
                                          st.sent, kinds), LAMBDA name :
           Bind(StrLower(m.prop_name), LAMBDA lowered :
           Bind(~(Contains(lowered, <<"n","a","m","e">>)
                  \/ Contains(lowered, <<"a","g","e">>)), LAMBDA should_translate :
             LET line_with(value) ==
                   [lines |-> Append(st.lines,
                                whole(VarChar \o SP \o Format(name) \o <<"(">>
                                      \o value.text \o <<")">> \o m.suffix)),
                    sent |-> value.sent, raised |-> FALSE]
             IN IF name.fail THEN [st EXCEPT !.sent = name.sent, !.raised = TRUE]
                ELSE IF ~should_translate
                THEN line_with([text |-> m.prop_value, sent |-> name.sent])
                ELSE IF Contains(m.prop_value, <<",">>)
                THEN Bind(Card_translate_values([values |-> <<>>, sent |-> name.sent],
                              SplitOn(m.prop_value, ","), 1, cs, kinds), LAMBDA many :
                       \* ', '.join(...) raises TypeError on a None value
                       IF \E k \in 1..Len(many.values) : many.values[k].none
                       THEN [st EXCEPT !.sent = many.sent, !.raised = TRUE]
                       ELSE line_with(
                              [text |-> Join(<<",", " ">>,
                                   [k \in 1..Len(many.values) |-> many.values[k].text]),
                               sent |-> many.sent]))
                ELSE Bind(Card_translator_translate(cs.translator, m.prop_value,
                              cs.target_lang, name.sent, kinds), LAMBDA one :
                       line_with(IF one.fail
                                 THEN [text |-> m.prop_value, sent |-> one.sent]
                                 ELSE [text |-> Format(one), sent |-> one.sent]))))))

RECURSIVE Card_translate_lines(_, _, _, _, _)
Card_translate_lines(st, lines, k, cs, kinds) ==
    IF k > Len(lines) \/ st.raised THEN st
    ELSE Bind(Card_translate_line(st, lines[k], cs, kinds), LAMBDA st1 :
           Card_translate_lines(st1, lines, k + 1, cs, kinds))

\* text.startswith('[') and text.endswith(']')
Card_is_bracketed(text) == StartsWith(text, <<"[">>) /\ EndsWith(text, <<"]">>)

\* the branch of translate_character_card for a text in [ ]
Card_translate_bracketed(text, cs, kinds) ==
    Bind(SplitOn(Slice(text, 2, Len(text)), "\n"), LAMBDA lines :
    Bind(Card_translate_lines([lines |-> <<>>, sent |-> <<>>, raised |-> FALSE],
                              lines, 1, cs, kinds), LAMBDA done :
      IF done.raised \/ \E k \in 1..Len(done.lines) : done.lines[k].none
      THEN Raised(done.sent)
      ELSE Returned(<<"[">> \o Join(NL, [k \in 1..Len(done.lines) |-> done.lines[k].text])
                    \o <<"]">>, done.sent)))

\* re.search(r"```([^`]+)```", text, re.DOTALL): group 1 of the first match,
\* as [found, text]
Card_search_fenced(s) ==
    Bind(FindIter(s, [i \in 1..Len(s) |->
            Bind(FirstOf(s, {BT}, i + 3), LAMBDA j :
              IF At(s, i, Ticks3) /\ j > i + 3 /\ At(s, j, Ticks3) THEN j + 3 ELSE 0)]),
         LAMBDA hits :
           IF hits = <<>> THEN [found |-> FALSE, text |-> <<>>]
           ELSE [found |-> TRUE, text |-> Slice(s, hits[1][1] + 3, hits[1][2] - 3)])

\* a dict as a set of [key, value] records with one record per key
DictHas(d, k) == \E e \in d : e.key = k
DictGet(d, k) == (CHOOSE e \in d : e.key = k).value
DictPut(d, k, v) == {e \in d : e.key # k} \cup {[key |-> k, value |-> v]}

\* the result translate_text makes of the reply text of the language model
Card_llm_result(reply_text, char_name) ==
    Bind(Card_search_fenced(reply_text), LAMBDA m :
    Bind(IF m.found THEN Strip(m.text) ELSE Strip(reply_text), LAMBDA found :
      IF char_name # <<>> THEN Replace(found, char_name, VarChar) ELSE found))

\* translate_text(text, char_name) on a processor with settings cs and the caches
\* _llm_cache and _translation_cache: [out, raised, sent, llm_cache, translation_cache]
Card_translate_text(text, char_name, cs, llm_cache, translation_cache, kinds) ==
    LET same(r) == [out |-> r.out, raised |-> r.raised, sent |-> r.sent,
                    llm_cache |-> llm_cache, translation_cache |-> translation_cache]
        key == <<text, char_name>>
    IN IF text = <<>> THEN same(Returned(text, <<>>))
       ELSE IF cs.translation_service = "llm"
       THEN IF DictHas(llm_cache, key) THEN same(Returned(DictGet(llm_cache, key), <<>>))
            ELSE Bind(Card_translator_translate(cs.translator,
                          Card_prompt(text, char_name, cs), cs.target_lang, <<>>, kinds),
                      LAMBDA response :
                   IF response.fail \/ response.none
                   THEN same(Returned(text, response.sent))
                   ELSE Bind(Card_llm_result(response.text, char_name), LAMBDA result :
                          [out |-> result, raised |-> FALSE, sent |-> response.sent,
                           llm_cache |-> DictPut(llm_cache, key, result),
                           translation_cache |-> translation_cache]))
       ELSE Bind(IF Card_is_bracketed(text) THEN Card_translate_bracketed(text, cs, kinds)
                 ELSE Card_translate_segment(text, char_name, cs, kinds), LAMBDA plain :
              IF plain.raised THEN same(plain)
              ELSE [out |-> plain.out, raised |-> FALSE, sent |-> plain.sent,
                    llm_cache |-> llm_cache,
                    translation_cache |-> DictPut(translation_cache, text, plain.out)])

\* translate_character_card(text, char_name): a text that is not in [ ] goes
\* back to translate_text
Card_translate_character_card(text, char_name, cs, llm_cache, translation_cache, kinds) ==
    IF text = <<>> \/ ~Card_is_bracketed(text)
    THEN Card_translate_text(text, char_name, cs, llm_cache, translation_cache, kinds)
    ELSE Bind(Card_translate_bracketed(text, cs, kinds), LAMBDA r :
           [out |-> r.out, raised |-> r.raised, sent |-> r.sent,
            llm_cache |-> llm_cache, translation_cache |-> translation_cache])

-----------------------------------------------------------------------------
(* Inputs.  A source text is a concatenation of at most MaxAtoms fragments; *)
(* a run of backend replies has one kind for each of the first MaxCalls     *)
(* requests and then repeats.                                               *)

MaxAtoms == 3
MaxCalls == 2

AtomSeqs(A, n) == UNION {[1..k -> A] : k \in 0..n}
Texts(A, n) == {Concat(q) : q \in AtomSeqs(A, n)}
KindSeqs == [1..MaxCalls -> ReplyKinds]

InlineCode == <<BT, "t", ".", "t", BT>>
FencedCode == Ticks3 \o <<"\n", "t", "\n">> \o Ticks3
AngleTag == <<"<", "t", ">">>

\* the variables of the card translator, for the behaviours that do not use it
NoProcessor == proc = <<>> /\ hist = <<>> /\ pc = <<>>

-----------------------------------------------------------------------------
(* SpecShield: _extract_and_protect followed at once by _restore_protected  *)

ShieldAtoms == {<<"t">>, <<" ">>, <<"\n">>, InlineCode, FencedCode, VarUser, VarChar,
                Jane}

InitShield ==
    /\ phase = "idle" /\ op = "none"
    /\ src \in Texts(ShieldAtoms, MaxAtoms)
    /\ out = <<>> /\ raised = FALSE /\ sent = <<>> /\ aux = <<>>
    /\ NoProcessor

EngineShield ==
    /\ phase = "idle"
    /\ \E p \in {Engine_extract_and_protect(src)} :
          /\ aux' = [text |-> p.text, items |-> p.items]
          /\ out' = Engine_restore_protected(p.text, p.items)
    /\ phase' = "done" /\ op' = "engine_shield"
    /\ UNCHANGED <<src, raised, sent, proc, hist, pc>>

PresetShield ==
    /\ phase = "idle"
    /\ \E p \in {Preset_extract_and_protect(src)} :
          /\ aux' = [text |-> p.text, items |-> p.items]
          /\ out' = Preset_restore_protected(p.text, p.items)
    /\ phase' = "done" /\ op' = "preset_shield"
    /\ UNCHANGED <<src, raised, sent, proc, hist, pc>>

NextShield == EngineShield \/ PresetShield
SpecShield == InitShield /\ [][NextShield]_vars

-----------------------------------------------------------------------------
(* SpecEngine: engine.py, one translate_text or one translate_json_data     *)

EngineAtoms == {<<"t">>, <<"T", ".">>, <<" ">>, <<"\n">>, InlineCode, FencedCode,
                VarUser, AngleTag}
EngineCfgs ==
    {[use_llm |-> FALSE, client |-> TRUE, translate_angle |-> FALSE],
     [use_llm |-> TRUE, client |-> TRUE, translate_angle |-> FALSE],
     [use_llm |-> TRUE, client |-> TRUE, translate_angle |-> TRUE],
     [use_llm |-> TRUE, client |-> FALSE, translate_angle |-> FALSE]}

\* the document handed to translate_json_data: src is the first target field,
\* a second target field sits in a nested list
SecondField == <<"T", " ", "t">>
EngineDoc(text) ==
    DictNode(<<"content", "name", "temperature", "prompts">>,
             <<StrNode(text), StrNode(<<"t">>), OtherNode,
               ListNode(<<DictNode(<<"identifier", "content">>,
                                   <<StrNode(<<"t">>), StrNode(SecondField)>>)>>)>>)

InitEngine ==
    /\ phase = "idle" /\ op = "none"
    /\ src \in Texts(EngineAtoms, MaxAtoms)
    /\ out = <<>> /\ raised = FALSE /\ sent = <<>>
    /\ aux \in [cfg : EngineCfgs, kinds : KindSeqs, fields : {0}, done : {0}]
    /\ NoProcessor

EngineTranslateText ==
    /\ phase = "idle"
    /\ \E r \in {Engine_translate_text(src, aux.cfg, aux.kinds)} :
          out' = r.out /\ raised' = r.raised /\ sent' = r.sent
    /\ phase' = "done" /\ op' = "translate_text"
    /\ UNCHANGED <<src, aux, proc, hist, pc>>

EngineTranslateJsonData ==
    /\ phase = "idle"
    /\ \E r \in {Engine_translate_json_data(EngineDoc(src), aux.cfg, aux.kinds)} :
          /\ out' = r.data /\ raised' = r.raised /\ sent' = r.sent
          /\ aux' = [aux EXCEPT !.fields = Len(Engine_find_items(EngineDoc(src), <<>>, 1)),
                                !.done = r.done]
    /\ phase' = "done" /\ op' = "translate_json_data"
    /\ UNCHANGED <<src, proc, hist, pc>>

NextEngine == EngineTranslateText \/ EngineTranslateJsonData
SpecEngine == InitEngine /\ [][NextEngine]_vars

-----------------------------------------------------------------------------
(* SpecPreset: preset_translator.py, one translate_text                     *)

\* seven words and a space: with two more words the text exceeds MAX_CHUNK_SIZE
SevenWords == <<"t"," ","t"," ","t"," ","t"," ","t"," ","t"," ","t"," ">>
PresetAtoms == {<<"t">>, <<"T", ".">>, <<" ">>, <<"\n">>, <<",", "t">>, SevenWords,
                FencedCode, AngleTag}
PresetCfgs ==
    {[use_llm |-> FALSE, usable |-> FALSE, lang_name |-> TRUE,
      translate_angle |-> FALSE, google |-> TRUE],
     [use_llm |-> FALSE, usable |-> FALSE, lang_name |-> TRUE,
      translate_angle |-> TRUE, google |-> TRUE],
     [use_llm |-> FALSE, usable |-> FALSE, lang_name |-> TRUE,
      translate_angle |-> FALSE, google |-> FALSE],
     [use_llm |-> TRUE, usable |-> TRUE, lang_name |-> TRUE,
      translate_angle |-> FALSE, google |-> TRUE],
     [use_llm |-> TRUE, usable |-> FALSE, lang_name |-> TRUE,
      translate_angle |-> FALSE, google |-> TRUE],
     [use_llm |-> TRUE, usable |-> TRUE, lang_name |-> FALSE,
      translate_angle |-> FALSE, google |-> TRUE]}

\* the placeholders _extract_and_protect puts into the text: one per fenced block
\* (repl_triple) and the keys of the dict it returns
Preset_inserted(text) ==
    Bind(ReplaceEach(text, VAR_PLACEHOLDERS), LAMBDA vars_done :
    Bind(FindIter(vars_done,
                  [i \in 1..Len(vars_done) |-> TripleBacktickEnd(vars_done, i)]),
         LAMBDA triple :
    Bind(Preset_extract_and_protect(text), LAMBDA p :
      {CODE_BLOCK_PLACEHOLDER_PREFIX \o Decimal(k - 1) : k \in 1..Len(triple)}
      \cup {p.items[k][1] : k \in 1..Len(p.items)})))

InitPreset ==
    /\ phase = "idle" /\ op = "none"
    /\ src \in Texts(PresetAtoms, MaxAtoms)
    /\ out = <<>> /\ raised = FALSE /\ sent = <<>>
    /\ aux \in [cfg : PresetCfgs, kinds : KindSeqs, inserted : {{}}]
    /\ NoProcessor

PresetTranslateText ==
    /\ phase = "idle"
    /\ \E r \in {Preset_translate_text(src, aux.cfg, aux.kinds)} :
          out' = r.out /\ raised' = r.raised /\ sent' = r.sent
    /\ aux' = [aux EXCEPT !.inserted =
                 IF Strip(src) = <<>> THEN {} ELSE Preset_inserted(src)]
    /\ phase' = "done" /\ op' = "translate_text"
    /\ UNCHANGED <<src, proc, hist, pc>>

NextPreset == PresetTranslateText
SpecPreset == InitPreset /\ [][NextPreset]_vars

-----------------------------------------------------------------------------
(* SpecCard: card_translator.py, a CharacterProcessor driven by show_menu:  *)
(* translate_text calls (made for the fields of a card) and menu choices.   *)

MaxHistory == 2
MaxMenu == 1

Tia == <<"T", "i", "a">>
CardTexts == {<<"t">>, <<"T", " ", "*", "t", "*">>, <<"[", "t", "]">>}
CardNames == {<<>>, Tia}
CardKindSeqs == {<<"ok">>, <<"fenced">>, <<"fail">>, <<"none">>}
\* (translate_name, translate_angle, use_char_name) as answered in the menu
CardFlags == {<<FALSE, FALSE, FALSE>>, <<TRUE, TRUE, TRUE>>}
\* the answers to the user profile question
CardGenders == {"1", "3"}

\* set_translator_service: the translator object for the configured service.
\* lib/free_translator.py defines FreeTranslator and no GoogleTranslatorService,
\* so the import made for 'google' (and for any unknown service) raises.
Card_set_translator_service(cs) ==
    IF cs.translation_service = "mymemory"
    THEN [raised |-> FALSE, cs |-> [cs EXCEPT !.translator = "mymemory"]]
    ELSE IF cs.translation_service = "llm"
    THEN [raised |-> FALSE, cs |-> [cs EXCEPT !.translator = "llm"]]
    ELSE [raised |-> TRUE, cs |-> cs]

\* CharacterProcessor.__init__ for a settings file: load, apply, set the
\* translator, empty caches
Card_settings(service, lang, flags) ==
    [translation_service |-> service, translator |-> service, target_lang |-> lang,
     translate_name |-> flags[1], translate_angle |-> flags[2],
     use_char_name |-> flags[3], choice_gender |-> "3",
     use_english_instructions |-> TRUE, user_gender_instruction |-> <<>>]

\* the user_gender_instruction stored by configure_translation_language for an
\* answer to the user profile question; the profile texts are the defaults
\* "male" and "female"
Card_gender_instruction(choice_gender) ==
    IF choice_gender = "1"
    THEN <<"{","{","u","s","e","r","}","}"," ","m","a","l","e",".">>
    ELSE IF choice_gender = "2"
    THEN <<"{","{","u","s","e","r","}","}"," ","f","e","m","a","l","e",".">>
    ELSE <<>>

\* update_gender_instruction: the stored sentence is rebuilt from what it
\* mentions; the test for "male" comes first and also finds it in "female"
Card_update_gender_instruction(cs) ==
    Bind(StrLower(cs.user_gender_instruction), LAMBDA current :
      [cs EXCEPT !.user_gender_instruction =
         IF Contains(current, <<"m","a","l","e">>) THEN Card_gender_instruction("1")
         ELSE IF Contains(current, <<"f","e","m","a","l","e">>)
         THEN Card_gender_instruction("2")
         ELSE <<>>])

InitCard ==
    /\ phase = "idle" /\ op = "none" /\ src = <<>>
    /\ out = <<>> /\ raised = FALSE /\ sent = <<>>
    /\ aux = [menus |-> 0]
    /\ \E service \in {"mymemory", "llm"}, lang \in Langs :
          proc = [cs |-> Card_settings(service, lang, <<FALSE, FALSE, FALSE>>),
                  llm_cache |-> {}, translation_cache |-> {}, stored_lang |-> {}]
    /\ hist = <<>> /\ pc = <<>>

\* one translate_text(text, char_name) call, as translate_character_data makes
\* for each field; stored_lang remembers the target language at each store
CardTranslateText ==
    /\ phase = "idle" /\ Len(hist) < MaxHistory
    /\ \E text \in CardTexts, char_name \in CardNames, kinds \in CardKindSeqs :
       \E r \in {Card_translate_text(text, char_name, proc.cs, proc.llm_cache,
                                      proc.translation_cache, kinds)},
          hit \in {/\ proc.cs.translation_service = "llm"
                   /\ DictHas(proc.llm_cache, <<text, char_name>>)} :
         LET key == <<text, char_name>>
             \* self._llm_cache[key] = result, reached only in the llm branch
             \* after a miss: the key was not in the cache and now is
             stored == ~DictHas(proc.llm_cache, key) /\ DictHas(r.llm_cache, key)
         IN /\ proc' = [proc EXCEPT
                          !.llm_cache = r.llm_cache,
                          !.translation_cache = r.translation_cache,
                          !.stored_lang = IF stored
                                          THEN DictPut(@, key, proc.cs.target_lang)
                                          ELSE @]
            /\ hist' = Append(hist,
                          [text |-> text, char_name |-> char_name, cs |-> proc.cs,
                           out |-> r.out, raised |-> r.raised, sent |-> r.sent,
                           hit |-> hit,
                           hit_lang |-> IF hit THEN DictGet(proc.stored_lang, key)
                                        ELSE "none"])
            /\ src' = text /\ out' = r.out /\ raised' = r.raised /\ sent' = r.sent
    /\ op' = "translate_text"
    /\ UNCHANGED <<phase, aux, pc>>

\* menu choice 4: configure_translation_language.  It sets translation_service
\* to "llm" or "google" and the other answers, saves and re-applies the
\* settings; it does not call set_translator_service, so the translator object
\* stays the one built before
CardConfigureTranslationLanguage ==
    /\ phase = "idle" /\ aux.menus < MaxMenu
    /\ \E choice_llm \in BOOLEAN, new_lang \in Langs, flags \in CardFlags,
          choice_gender \in CardGenders :
          proc' = [proc EXCEPT !.cs =
                     [@ EXCEPT
                        !.translation_service = IF choice_llm THEN "llm" ELSE "google",
                        !.target_lang = new_lang,
                        !.translate_name = flags[1],
                        !.translate_angle = flags[2],
                        !.use_char_name = flags[3],
                        !.choice_gender = choice_gender,
                        !.user_gender_instruction =
                            Card_gender_instruction(choice_gender)]]
    /\ raised' = FALSE
    /\ op' = "configure_translation_language"
    /\ aux' = [aux EXCEPT !.menus = @ + 1]
    /\ UNCHANGED <<phase, src, out, sent, hist, pc>>

\* menu choice 5: configure_translation_service
CardConfigureTranslationService ==
    /\ phase = "idle" /\ aux.menus < MaxMenu
    /\ \E choice \in {"google", "mymemory"} :
       \E set \in {Card_set_translator_service(
                        [proc.cs EXCEPT !.translation_service = choice])} :
            /\ proc' = [proc EXCEPT !.cs = set.cs]
            /\ raised' = set.raised
            /\ phase' = IF set.raised THEN "crashed" ELSE "idle"
    /\ op' = "configure_translation_service"
    /\ aux' = [aux EXCEPT !.menus = @ + 1]
    /\ UNCHANGED <<src, out, sent, hist, pc>>

\* menu choice 8: one round of configure_model's loop.  A provider, a key or
\* a model is chosen, or USE_EN_INSTRUCT is toggled (the flag is negated and
\* update_gender_instruction runs); the round ends with
\* save_translation_settings and set_translator_service
CardConfigureModel ==
    /\ phase = "idle" /\ aux.menus < MaxMenu
    /\ \E toggle \in BOOLEAN :
       \E set \in {Card_set_translator_service(
                        IF toggle
                        THEN Card_update_gender_instruction(
                                 [proc.cs EXCEPT !.use_english_instructions = ~@])
                        ELSE proc.cs)} :
            /\ proc' = [proc EXCEPT !.cs = set.cs]
            /\ raised' = set.raised
            /\ phase' = IF set.raised THEN "crashed" ELSE "idle"
    /\ op' = "configure_model"
    /\ aux' = [aux EXCEPT !.menus = @ + 1]
    /\ UNCHANGED <<src, out, sent, hist, pc>>

NextCard ==
    \/ CardTranslateText
    \/ CardConfigureTranslationLanguage
    \/ CardConfigureTranslationService
    \/ CardConfigureModel
SpecCard == InitCard /\ [][NextCard]_vars

-----------------------------------------------------------------------------
(* SpecChunk: the three chunkers as functions.  Each step is one call with *)
(* its input drawn from the bounded sets below; the state is the record of *)
(* the last call: src the text handed in, out what the call returned, sent  *)
(* the requests it made, aux.size the limit and aux.items the shield's      *)
(* placeholder table.                                                       *)

MaxSize == 3

\* a word of n letters
Long(n) == [i \in 1..n |-> "t"]

SplitAtoms == {<<"t">>, <<" ">>, <<"\n">>, Long(MaxSize + 1), Jane}
ChunkAtoms == {<<"t">>, <<" ">>, <<"\n">>, SevenWords}
GoogleAtoms == {<<"t">>, <<".">>, <<" ">>, Long(MAX_CHUNK_CHAR_LIMIT - 1), InlineCode}
GoogleKinds == {[i \in 1..MaxCalls |-> kind] : kind \in {"ok", "fail", "none"}}

InitChunk ==
    /\ phase = "idle" /\ op = "none"
    /\ src = <<>> /\ out = <<>> /\ raised = FALSE /\ sent = <<>>
    /\ aux = [size |-> 0, items |-> <<>>]
    /\ NoProcessor

\* split_text(text, chunk_size)
ChunkSplitText ==
    /\ phase = "idle"
    /\ \E text \in Texts(SplitAtoms, MaxAtoms), chunk_size \in 1..MaxSize :
          /\ src' = text
          /\ aux' = [size |-> chunk_size, items |-> <<>>]
          /\ out' = MyMemory_split_text(text, chunk_size)
          /\ raised' = FALSE /\ sent' = <<>>
          /\ phase' = "done" /\ op' = "split_text"
          /\ UNCHANGED <<proc, hist, pc>>

\* _split_into_chunks(text), max_chunk_size = MAX_CHUNK_SIZE
ChunkSplitIntoChunks ==
    /\ phase = "idle"
    /\ \E text \in Texts(ChunkAtoms, MaxAtoms) :
          /\ src' = text
          /\ aux' = [size |-> MAX_CHUNK_SIZE, items |-> <<>>]
          /\ out' = Preset_split_into_chunks(text)
          /\ raised' = FALSE /\ sent' = <<>>
          /\ phase' = "done" /\ op' = "_split_into_chunks"
          /\ UNCHANGED <<proc, hist, pc>>

\* _translate_with_google(processed_text, ...) on the text that
\* _extract_and_protect made of the source, as translate_text calls it
ChunkTranslateWithGoogle ==
    /\ phase = "idle"
    /\ \E text \in Texts(GoogleAtoms, MaxAtoms), kinds \in GoogleKinds :
       \E p \in {Engine_extract_and_protect(text)} :
       \E r \in {Engine_translate_with_google(p.text, kinds)} :
          /\ src' = p.text
          /\ aux' = [size |-> MAX_CHUNK_CHAR_LIMIT, items |-> p.items]
          /\ out' = r.out /\ raised' = r.raised /\ sent' = r.sent
          /\ phase' = "done" /\ op' = "_translate_with_google"
          /\ UNCHANGED <<proc, hist, pc>>

NextChunk == ChunkSplitText \/ ChunkSplitIntoChunks \/ ChunkTranslateWithGoogle
SpecChunk == InitChunk /\ [][NextChunk]_vars

-----------------------------------------------------------------------------
(* SpecCasing: one translate_segment of the card translator or one          *)
(* translate_text of engine.py (Google path) on a text with {{user}} and    *)
(* {{char}}, with a backend that answers in the case it likes.  aux.char    *)
(* and aux.user are the stand-in names the call used.                       *)

CasingAtoms == {<<"T">>, <<"t">>, <<" ">>, VarUser, VarChar, <<"'", "s">>}
CasingKinds == {<<"ok">>, <<"echo">>, <<"lower">>, <<"upper">>, <<"small">>}

InitCasing ==
    /\ phase = "idle" /\ op = "none"
    /\ src = <<>> /\ out = <<>> /\ raised = FALSE /\ sent = <<>>
    /\ aux = [kinds |-> <<>>, char |-> <<>>, user |-> <<>>]
    /\ NoProcessor

\* translate_segment(text) with the MyMemory service and no character name
CasingTranslateSegment ==
    /\ phase = "idle"
    /\ \E text \in Texts(CasingAtoms, MaxAtoms), flags \in CardFlags,
          kinds \in CasingKinds :
       \E r \in {Card_translate_segment(text, <<>>,
                                        Card_settings("mymemory", "pt", flags), kinds)} :
          /\ src' = text
          /\ aux' = [kinds |-> kinds, char |-> Jane, user |-> James]
          /\ out' = r.out /\ raised' = r.raised /\ sent' = r.sent
          /\ phase' = "done" /\ op' = "translate_segment"
          /\ UNCHANGED <<proc, hist, pc>>

\* translate_text(text) of engine.py without a language model
CasingEngineTranslateText ==
    /\ phase = "idle"
    /\ \E text \in Texts(CasingAtoms, MaxAtoms), kinds \in CasingKinds :
       \E r \in {Engine_translate_text(text, [use_llm |-> FALSE, client |-> FALSE,
                                              translate_angle |-> FALSE], kinds)} :
          /\ src' = text
          /\ aux' = [kinds |-> kinds, char |-> Jane, user |-> James]
          /\ out' = r.out /\ raised' = r.raised /\ sent' = r.sent
          /\ phase' = "done" /\ op' = "translate_text"
          /\ UNCHANGED <<proc, hist, pc>>

NextCasing == CasingTranslateSegment \/ CasingEngineTranslateText
SpecCasing == InitCasing /\ [][NextCasing]_vars

-----------------------------------------------------------------------------
(* SpecNormalize: the normalization of a translated text as a function:    *)
(* _post_process_formatting of engine.py, and _preserve_case followed by   *)
(* _post_process_formatting of preset_translator.py.  Each step normalizes *)
(* a text (src, with the source text aux.original) and then normalizes the *)
(* result once more: aux.once is the first result, out the second.         *)

NormalizeAtoms == {<<"t">>, <<"T">>, <<" ">>, <<".">>, <<",">>, <<"!">>, <<"(">>,
                   <<")">>, <<"'">>, <<"\n">>}
NormalizeOriginals == {<<>>, <<"t">>, <<"T">>, <<"T", "t">>}

InitNormalize ==
    /\ phase = "idle" /\ op = "none"
    /\ src = <<>> /\ out = <<>> /\ raised = FALSE /\ sent = <<>>
    /\ aux = [original |-> <<>>, once |-> <<>>]
    /\ NoProcessor

\* normalize(o, t) of preset_translator.py
Preset_normalize(original, text) ==
    Preset_post_process_formatting(
        Preset_preserve_case(original, [none |-> FALSE, text |-> text]).text)

NormalizeEngine ==
    /\ phase = "idle"
    /\ \E text \in Texts(NormalizeAtoms, MaxAtoms) :
       \E once \in {Engine_post_process_formatting(text)} :
          /\ src' = text
          /\ aux' = [original |-> <<>>, once |-> once]
          /\ out' = Engine_post_process_formatting(once)
          /\ raised' = FALSE /\ sent' = <<>>
          /\ phase' = "done" /\ op' = "engine"
          /\ UNCHANGED <<proc, hist, pc>>

NormalizePreset ==
    /\ phase = "idle"
    /\ \E text \in Texts(NormalizeAtoms, MaxAtoms), original \in NormalizeOriginals :
       \E once \in {Preset_normalize(original, text)} :
          /\ src' = text
          /\ aux' = [original |-> original, once |-> once]
          /\ out' = Preset_normalize(original, once)
          /\ raised' = FALSE /\ sent' = <<>>
          /\ phase' = "done" /\ op' = "preset"
          /\ UNCHANGED <<proc, hist, pc>>

NextNormalize == NormalizeEngine \/ NormalizePreset
SpecNormalize == InitNormalize /\ [][NextNormalize]_vars

-----------------------------------------------------------------------------
(* SpecSegment: the two delimiter segmenters of the card translator, each  *)
(* step one call of recursive_translate or translate_segment (MyMemory      *)
(* service) on a text with emphasis and quote markers.                      *)

SegmentAtoms == {<<"t">>, <<" ">>, <<"*">>, <<"*", "*">>, <<"\"">>}
SegmentMarkers == {<<"*", "*">>, <<"*">>, <<"\"">>}
SegmentWords == {<<"t">>, <<"t", " ">>, <<" ", "t">>}
SegmentKinds == {<<"ok">>, <<"fail">>, <<"none">>}

\* before, opening, content, closing, after
Delimited(a, m, b, c) == a \o m \o b \o m \o c
\* an outer pair around a text with an inner pair, such as **t *t* t**
NestedTexts ==
    {Delimited(<<>>, outer, Delimited(a, inner, b, c), <<>>) :
        outer \in SegmentMarkers, inner \in SegmentMarkers,
        a \in SegmentWords, b \in SegmentWords, c \in SegmentWords}
\* nested emphasis after more than MAX_LENGTH letters
LongTexts ==
    {Long(MAX_LENGTH) \o <<" ">>
        \o Delimited(<<>>, <<"*", "*">>, Delimited(<<"t", " ">>, <<"*">>, <<"t">>,
                                                    <<" ", "t">>), <<>>),
     Long(MAX_LENGTH) \o <<" ", "*", "*", "t">>}
SegmentTexts == Texts(SegmentAtoms, MaxAtoms) \cup NestedTexts

InitSegment ==
    /\ phase = "idle" /\ op = "none"
    /\ src = <<>> /\ out = <<>> /\ raised = FALSE /\ sent = <<>>
    /\ aux = [kinds |-> <<>>, parts |-> <<>>]
    /\ NoProcessor

SegmentRecursiveTranslate ==
    /\ phase = "idle"
    /\ \E text \in SegmentTexts \cup LongTexts :
       \E kinds \in (IF Len(text) > MAX_LENGTH THEN {<<"ok">>} ELSE SegmentKinds) :
       \E r \in {Card_recursive_translate(text, <<>>,
                     Card_settings("mymemory", "pt", <<FALSE, FALSE, FALSE>>),
                     <<>>, kinds)} :
          /\ src' = text
          /\ aux' = [kinds |-> kinds,
                     parts |-> IF Len(text) > MAX_LENGTH
                               THEN Card_segment_prepare(text, <<>>,
                                        Card_settings("mymemory", "pt",
                                                      <<FALSE, FALSE, FALSE>>)).parts
                               ELSE Card_recursive_parts(text)]
          /\ out' = r.out /\ raised' = r.raised /\ sent' = r.sent
          /\ phase' = "done" /\ op' = "recursive_translate"
          /\ UNCHANGED <<proc, hist, pc>>

SegmentTranslateSegment ==
    /\ phase = "idle"
    /\ \E text \in SegmentTexts, kinds \in SegmentKinds :
       \E r \in {Card_translate_segment(text, <<>>,
                     Card_settings("mymemory", "pt", <<FALSE, FALSE, FALSE>>), kinds)} :
          /\ src' = text
          /\ aux' = [kinds |-> kinds,
                     parts |-> IF text = <<>> THEN <<>>
                               ELSE Card_segment_prepare(text, <<>>,
                                        Card_settings("mymemory", "pt",
                                                      <<FALSE, FALSE, FALSE>>)).parts]
          /\ out' = r.out /\ raised' = r.raised /\ sent' = r.sent
          /\ phase' = "done" /\ op' = "translate_segment"
          /\ UNCHANGED <<proc, hist, pc>>

NextSegment == SegmentRecursiveTranslate \/ SegmentTranslateSegment
SpecSegment == InitSegment /\ [][NextSegment]_vars

-----------------------------------------------------------------------------
(* SpecClean: the reply clean-up of the three language-model adapters.  A   *)
(* step wraps a payload (aux.payload) as the model may wrap it (aux.wrapper) *)
(* and cleans the reply (src): out is the cleaned reply.                     *)

OpenTag == <<"<", "b", ">">>
CloseTag == <<"<", "/", "b", ">">>
CleanAtoms == {<<"t">>, <<" ">>, <<"\n">>, OpenTag, CloseTag}
CleanWrappers == {"none", "fence", "fence_lang"}

\* the reply of a model that wraps the payload
Wrapped(wrapper, payload) ==
    IF wrapper = "fence" THEN Ticks3 \o NL \o payload \o NL \o Ticks3
    ELSE IF wrapper = "fence_lang"
    THEN Ticks3 \o <<"t", "x", "t">> \o NL \o payload \o NL \o Ticks3
    ELSE payload

InitClean ==
    /\ phase = "idle" /\ op = "none"
    /\ src = <<>> /\ out = <<>> /\ raised = FALSE /\ sent = <<>>
    /\ aux = [payload |-> <<>>, wrapper |-> "none"]
    /\ NoProcessor

CleanEngine ==
    /\ phase = "idle"
    /\ \E payload \in Texts(CleanAtoms, MaxAtoms), wrapper \in CleanWrappers :
          /\ src' = Wrapped(wrapper, payload)
          /\ aux' = [payload |-> payload, wrapper |-> wrapper]
          /\ out' = Engine_clean_llm_response(Wrapped(wrapper, payload))
          /\ raised' = FALSE /\ sent' = <<>>
          /\ phase' = "done" /\ op' = "engine"
          /\ UNCHANGED <<proc, hist, pc>>

CleanPreset ==
    /\ phase = "idle"
    /\ \E payload \in Texts(CleanAtoms, MaxAtoms), wrapper \in CleanWrappers :
          /\ src' = Wrapped(wrapper, payload)
          /\ aux' = [payload |-> payload, wrapper |-> wrapper]
          /\ out' = Preset_clean_llm_response(Wrapped(wrapper, payload))
          /\ raised' = FALSE /\ sent' = <<>>
          /\ phase' = "done" /\ op' = "preset"
          /\ UNCHANGED <<proc, hist, pc>>

CleanCard ==
    /\ phase = "idle"
    /\ \E payload \in Texts(CleanAtoms, MaxAtoms), wrapper \in CleanWrappers :
          /\ src' = Wrapped(wrapper, payload)
          /\ aux' = [payload |-> payload, wrapper |-> wrapper]
          /\ out' = Card_llm_result(Wrapped(wrapper, payload), <<>>)
          /\ raised' = FALSE /\ sent' = <<>>
          /\ phase' = "done" /\ op' = "card"
          /\ UNCHANGED <<proc, hist, pc>>

NextClean == CleanEngine \/ CleanPreset \/ CleanCard
SpecClean == InitClean /\ [][NextClean]_vars

-----------------------------------------------------------------------------
(* SpecBlank: translate_text of the three programs on an empty or          *)
(* whitespace-only text (src), under each configuration (aux.cfg).          *)

BlankAtoms == {<<" ">>, <<"\n">>, <<"\t">>}
BlankCardCfgs ==
    {Card_settings(service, "pt", flags) :
        service \in {"mymemory", "llm"}, flags \in CardFlags}

InitBlank ==
    /\ phase = "idle" /\ op = "none"
    /\ src = <<>> /\ out = <<>> /\ raised = FALSE /\ sent = <<>>
    /\ aux = [cfg |-> <<>>, kinds |-> <<>>]
    /\ NoProcessor

BlankEngineTranslateText ==
    /\ phase = "idle"
    /\ \E text \in Texts(BlankAtoms, MaxAtoms), cfg \in EngineCfgs, kinds \in KindSeqs :
       \E r \in {Engine_translate_text(text, cfg, kinds)} :
          /\ src' = text /\ aux' = [cfg |-> cfg, kinds |-> kinds]
          /\ out' = r.out /\ raised' = r.raised /\ sent' = r.sent
          /\ phase' = "done" /\ op' = "engine"
          /\ UNCHANGED <<proc, hist, pc>>

BlankPresetTranslateText ==
    /\ phase = "idle"
    /\ \E text \in Texts(BlankAtoms, MaxAtoms), cfg \in PresetCfgs, kinds \in KindSeqs :
       \E r \in {Preset_translate_text(text, cfg, kinds)} :
          /\ src' = text /\ aux' = [cfg |-> cfg, kinds |-> kinds]
          /\ out' = r.out /\ raised' = r.raised /\ sent' = r.sent
          /\ phase' = "done" /\ op' = "preset"
          /\ UNCHANGED <<proc, hist, pc>>

BlankCardTranslateText ==
    /\ phase = "idle"
    /\ \E text \in Texts(BlankAtoms, MaxAtoms), cfg \in BlankCardCfgs,
          kinds \in CardKindSeqs :
       \E r \in {Card_translate_text(text, <<>>, cfg, {}, {}, kinds)} :
          /\ src' = text /\ aux' = [cfg |-> cfg, kinds |-> kinds]
          /\ out' = r.out /\ raised' = r.raised /\ sent' = r.sent
          /\ phase' = "done" /\ op' = "card"
          /\ UNCHANGED <<proc, hist, pc>>

NextBlank ==
    BlankEngineTranslateText \/ BlankPresetTranslateText \/ BlankCardTranslateText
SpecBlank == InitBlank /\ [][NextBlank]_vars

(***************************************************************************)
(* The translate button, the worker thread and the Tk event loop of the    *)
(* two desktop programs (preset_translator/main.py and                     *)
(* preset_translator/preset_translator.py).  proc holds the window: which  *)
(* program it is, whether the translate button is enabled, the callbacks   *)
(* that root.after has queued for the main thread, and how many workers    *)
(* were started.  pc holds one record per worker thread: its position in   *)
(* the worker function, the index of the file it works on, the number of   *)
(* files it was given, the field of the file whose translation it waits    *)
(* for, the number of target fields of the file, the backend, and whether  *)
(* it went through its except block.                                       *)
(***************************************************************************)
MaxFiles == 1
MaxStarts == 2

\* the numbers of target fields a loaded file may hold
FieldCounts == {0, 1, 2}

Apps == {"main", "preset"}
Backends == {"google", "llm"}

\* what load_json_safe gives the worker: the data of the file, a value that
\* is false (a missing file, text that is no JSON, an empty document), or, in
\* main.py only, an exception that is neither a JSONDecodeError nor an
\* OSError (the UnicodeDecodeError of a file that is not UTF-8)
Loads == {"data", "empty", "raises"}

\* what a request to the backend gives: a translation, an exception, or a
\* reply that is None
Answers == {"ok", "raises", "none"}

\* the positions of a worker inside its try block or its except block
Translating == {"file", "load", "request", "save", "completed", "success", "except"}

\* a set_ui_state that leaves the translate button as it is
App_set_ui_state_kept(ui, is_enabled) == ui

\* set_ui_state: the state of the translate button follows is_enabled
App_set_ui_state(ui, is_enabled) == [ui EXCEPT !.button = is_enabled]

\* root.after(0, callback): the callback joins the queue of the main thread
App_after(ui, callbacks) == [ui EXCEPT !.queue = @ \o callbacks]

\* a worker outside the loop over its files, at a position of the except
\* block, of the finally block or after them: the files, the fields and the
\* backend are not read again, what remains is whether an exception ended
\* the loop
Worker_outside(at, failed) ==
    [at |-> at, i |-> 0, n |-> 0, j |-> 0, f |-> 0, backend |-> "none", failed |-> failed]

\* a worker that an exception ends at once, without except or finally
Worker_dies(w) == Worker_outside("ended", TRUE)

\* an exception inside the try block: control goes to the except block
Worker_on_exception(w) == Worker_outside("except", TRUE)

\* the finally block has scheduled set_ui_state(True): main.py has one more
\* statement to run, preset_translator.py returns
Worker_finally(w, app) == Worker_outside(IF app = "main" THEN "idle" ELSE "ended", w.failed)

\* whether translate_text raises on a field whose request had this answer;
\* open: the reply is for a chunk that follows, inside one segment, a part
\* ending neither in a space nor in a newline.  engine.py: _translate_with_llm
\* raises on an exception and on an empty reply; translate_now catches the
\* exceptions of Google and returns the None it was given, on which the join
\* of the chunks raises TypeError.  preset_translator.py: _translate_with_llm
\* falls back to the text on every failure, the Google branch catches the
\* exceptions of the request and takes None for an empty part, except at the
\* startswith test of the reassembly, which raises on it
Worker_translate_text_raises(app, backend, answer, open) ==
    IF app = "main"
    THEN answer = "none" \/ (answer = "raises" /\ backend = "llm")
    ELSE backend = "google" /\ answer = "none" /\ open

\* whether an exception of translate_text leaves the translation of the file:
\* translate_json_data of engine.py does not catch it, translate_json of
\* preset_translator.py catches every exception of a field
Worker_request_raises(app, backend, answer) ==
    app = "main" /\ Worker_translate_text_raises(app, backend, answer, FALSE)

\* the worker after the request for field j of a file with f fields: the next
\* request, or the save after the last one
Worker_after_field(w) ==
    IF w.j < w.f THEN [w EXCEPT !.j = @ + 1] ELSE [w EXCEPT !.at = "save"]

InitWorker ==
    /\ phase = "idle"
    /\ op = "init"
    /\ src = <<>>
    /\ out = <<>>
    /\ raised = FALSE
    /\ sent = <<>>
    /\ aux = [files |-> 0]
    /\ proc \in {[app |-> a, button |-> TRUE, queue |-> <<>>, starts |-> 0] : a \in Apps}
    /\ hist = <<>>
    /\ pc = <<>>

\* the user presses the translate button: the command runs only while the
\* button is enabled; a request that fails validation returns before the UI
\* is touched, a valid one disables the UI and starts the worker thread
StartTranslation ==
    /\ proc.button
    /\ proc.starts < MaxStarts
    /\ \E nfiles \in 0..MaxFiles, valid \in BOOLEAN, backend \in Backends :
          IF nfiles = 0 \/ ~valid
          THEN /\ aux' = aux
               /\ op' = "start_rejected"
               /\ proc' = proc
               /\ pc' = pc
          ELSE /\ aux' = aux
               /\ op' = "start_translation"
               /\ proc' = [App_set_ui_state(proc, FALSE) EXCEPT !.starts = @ + 1]
               /\ pc' = Append(pc, [at |-> "file", i |-> 1, n |-> nfiles, j |-> 0, f |-> 0,
                                    backend |-> backend, failed |-> FALSE])
    /\ UNCHANGED <<phase, src, out, raised, sent, hist>>

\* one step of worker k, from one wait (the read of a file, a request to the
\* backend, the write of a file) or one root.after call to the next; loaded
\* and fields are what the read gives, answer and open what the request
\* gives, good is the outcome of the write.
\* translate_json_data of engine.py reports progress before each field and
\* once at the end, translate_json of preset_translator.py after each field
\* whose translate_text returned.  After the last file main.py makes three
\* root.after calls (the progress bar, the status label, the message box),
\* preset_translator.py one
WorkerAt(k, loaded, fields, answer, open, good) ==
    LET w == pc[k] IN
    CASE w.at = "file" /\ w.i <= w.n ->
            /\ pc' = [pc EXCEPT ![k].at = "load"]
            /\ proc' = App_after(proc, <<"loading">>)
      [] w.at = "file" /\ w.i > w.n ->
            /\ pc' = [pc EXCEPT ![k] = Worker_outside(IF proc.app = "main" THEN "completed"
                                                                            ELSE "finally",
                                                      FALSE)]
            /\ proc' = App_after(proc, IF proc.app = "main" THEN <<"bar">> ELSE <<"success">>)
      [] w.at = "completed" ->
            /\ pc' = [pc EXCEPT ![k].at = "success"]
            /\ proc' = App_after(proc, <<"completed">>)
      [] w.at = "success" ->
            /\ pc' = [pc EXCEPT ![k].at = "finally"]
            /\ proc' = App_after(proc, <<"success">>)
      [] w.at = "load" /\ loaded = "raises" /\ proc.app = "main" ->
            /\ pc' = [pc EXCEPT ![k] = Worker_on_exception(@)]
            /\ proc' = proc
      [] w.at = "load" /\ (loaded = "empty" \/ (loaded = "raises" /\ proc.app # "main")) ->
            /\ pc' = [pc EXCEPT ![k].at = "file", ![k].i = @ + 1]
            /\ proc' = App_after(proc, IF proc.app = "main" THEN <<"progress">> ELSE <<>>)
      [] w.at = "load" /\ loaded = "data" ->
            /\ pc' = [pc EXCEPT ![k].at = IF fields = 0 THEN "save" ELSE "request",
                                ![k].j = IF fields = 0 THEN 0 ELSE 1,
                                ![k].f = fields]
            /\ proc' = App_after(proc, IF proc.app = "main" THEN <<"progress">> ELSE <<>>)
      [] w.at = "request" ->
            IF Worker_request_raises(proc.app, w.backend, answer)
            THEN /\ pc' = [pc EXCEPT ![k] = Worker_on_exception(@)]
                 /\ proc' = proc
            ELSE /\ pc' = [pc EXCEPT ![k] = Worker_after_field(@)]
                 /\ proc' = App_after(proc,
                               IF Worker_translate_text_raises(proc.app, w.backend, answer, open)
                               THEN <<>> ELSE <<"progress">>)
      [] w.at = "save" ->
            IF good
            THEN /\ pc' = [pc EXCEPT ![k].at = "file", ![k].i = @ + 1]
                 /\ proc' = proc
            ELSE /\ pc' = [pc EXCEPT ![k] = Worker_on_exception(@)]
                 /\ proc' = proc
      [] w.at = "except" ->
            /\ pc' = [pc EXCEPT ![k].at = "finally"]
            /\ proc' = App_after(proc, <<"error">>)
      [] w.at = "finally" ->
            /\ pc' = [pc EXCEPT ![k] = Worker_finally(@, proc.app)]
            /\ proc' = App_after(proc, <<"enable">>)
      [] w.at = "idle" ->
            /\ pc' = [pc EXCEPT ![k] = Worker_outside("ended", @.failed)]
            /\ proc' = App_after(proc, <<"idle">>)

\* a worker step takes its inputs from the wait that ends at its position:
\* the read at "load", the request at "request", the write at "save"
WorkerStep ==
    /\ \E k \in 1..Len(pc) :
          /\ pc[k].at # "ended"
          /\ \E loaded \in (IF pc[k].at = "load" THEN Loads ELSE {"data"}),
                fields \in (IF pc[k].at = "load" THEN FieldCounts ELSE {0}),
                answer \in (IF pc[k].at = "request" THEN Answers ELSE {"ok"}),
                open \in (IF pc[k].at = "request" THEN BOOLEAN ELSE {FALSE}),
                good \in (IF pc[k].at = "save" THEN BOOLEAN ELSE {TRUE}) :
                WorkerAt(k, loaded, fields, answer, open, good)
    /\ op' = "worker"
    /\ UNCHANGED <<phase, src, out, raised, sent, aux, hist>>

\* the Tk main loop runs the oldest queued callback; the one the finally
\* block queued is set_ui_state(True), the others touch labels and dialogs
MainRunCallback ==
    /\ proc.queue # <<>>
    /\ proc' = IF Head(proc.queue) = "enable"
               THEN [App_set_ui_state(proc, TRUE) EXCEPT !.queue = Tail(@)]
               ELSE [proc EXCEPT !.queue = Tail(@)]
    /\ op' = "callback"
    /\ UNCHANGED <<phase, src, out, raised, sent, aux, hist, pc>>

NextWorker == StartTranslation \/ WorkerStep \/ MainRunCallback
SpecWorker == InitWorker /\ [][NextWorker]_vars

\* the operating system runs every live thread again and the Tk main loop
\* runs every queued callback
SpecWorkerFair ==
    /\ InitWorker
    /\ [][NextWorker]_vars
    /\ WF_vars(WorkerStep)
    /\ WF_vars(MainRunCallback)

(***************************************************************************)
(* The card translator's files: the characters directory that is polled,   *)
(* the backup directory Original, and the translation db.  proc holds, for *)
(* each file name, the content of the file in either directory ("absent"   *)
(* when there is none) and the hash the db records for the name (NoHash    *)
(* when the name is not a key), and whether monitoring is on.  pc is where *)
(* start_monitoring stands: at the menu, in process_existing_files or in   *)
(* the polling loop, with the rest of the listing it walks through and the *)
(* card whose translation it waits for.  hist is the                       *)
(* console: the lines "Successfully translated <name>", "restored <name>"  *)
(* and "translation data reset".  A card is "orig" (it carries character   *)
(* data that was not translated), "trans" (written by                      *)
(* save_translated_card) or "bad" (exiftool finds no character data).      *)
(***************************************************************************)
MaxSteps == 5

CardFiles == {"a", "b"}
CardContents == {"orig", "bad", "trans"}

\* the db has no key for the name
NoHash == <<>>

\* get_file_hash: the md5 of the bytes of the file
Card_get_file_hash(content) == <<"md5", content>>

\* image_path.name in self.db
Card_in_db_never(db, name) == FALSE

Card_in_db(db, name) == db[name] # NoHash

\* move_to_original: the card goes to the backup directory unless a file of
\* its name is there already; moves is whether os.rename succeeds (its
\* exception is caught and printed)
Card_move_to_original(files, name, moves) ==
    IF files.backup[name] = "absent" /\ moves
    THEN [files EXCEPT !.backup[name] = files.chars[name], !.chars[name] = "absent"]
    ELSE files

\* process_character up to its call of translate_character_data: the guard
\* on the db, move_to_original and the extraction of the character data from
\* the backup file; waits tells that the call is reached
Card_process_character_begin(files, name, moves) ==
    IF Card_in_db(files.db, name) THEN [files |-> files, waits |-> FALSE]
    ELSE Bind(Card_move_to_original(files, name, moves), LAMBDA moved :
           [files |-> moved, waits |-> moved.backup[name] \notin {"absent", "bad"}])

\* process_character after translate_character_data has returned:
\* save_translated_card writes the card into the characters directory unless
\* Image.open or img.save raises (the exception is caught and printed), and
\* the db records the hash of the backup file under the name
Card_process_character_end(files, name, saved) ==
    [files EXCEPT !.chars[name] = IF saved THEN "trans" ELSE @,
                  !.db[name] = Card_get_file_hash(files.backup[name])]

\* the new_files of a poll: the listed files whose hash is not the one the
\* db holds for their name
Card_new_files(files, listing) ==
    SelectSeq(listing, LAMBDA n : files.db[n] # Card_get_file_hash(files.chars[n]))

\* glob('*.png') on a directory: the names present, in either order
Listings(chars) ==
    {l \in {<<>>, <<"a">>, <<"b">>, <<"a", "b">>, <<"b", "a">>} :
        {l[k] : k \in 1..Len(l)} = {n \in CardFiles : chars[n] # "absent"}}

\* what ends the wait for the translation of a card: translate_character_data
\* returns (and the save then succeeds or fails), it lets an exception of
\* translate_text through, or the user presses Ctrl-C
Replies == {"ok", "save_fails", "translate_raises", "interrupt"}

\* start_monitoring between two cards: process_existing_files is over when
\* its listing is, and the polling loop begins
Monitor_next(p) ==
    IF p.at = "existing" /\ p.todo = <<>> /\ p.cur = "none" THEN [p EXCEPT !.at = "loop"]
    ELSE p

AtMenu == [at |-> "menu", todo |-> <<>>, cur |-> "none"]

InitMonitor ==
    /\ phase = "idle"
    /\ op = "init"
    /\ src = <<>>
    /\ out = <<>>
    /\ raised = FALSE
    /\ sent = <<>>
    /\ aux = [steps |-> 0]
    /\ proc = [chars |-> [n \in CardFiles |-> "absent"],
               backup |-> [n \in CardFiles |-> "absent"],
               db |-> [n \in CardFiles |-> NoHash],
               monitoring |-> FALSE]
    /\ hist = <<>>
    /\ pc = AtMenu

\* the user puts a card file into the characters directory, at any time
MonitorDropCard ==
    /\ phase = "idle" /\ aux.steps < MaxSteps
    /\ \E name \in CardFiles, content \in {"orig", "bad"} :
          proc' = [proc EXCEPT !.chars[name] = content]
    /\ op' = "drop_card"
    /\ aux' = [aux EXCEPT !.steps = @ + 1]
    /\ UNCHANGED <<phase, src, out, raised, sent, hist, pc>>

\* menu choice 1, start_monitoring: without an API key or a model name for the
\* provider it returns at once; else monitoring is on and
\* process_existing_files lists the characters directory
MonitorStart ==
    /\ phase = "idle" /\ aux.steps < MaxSteps /\ pc.at = "menu"
    /\ \E configured \in BOOLEAN, listing \in Listings(proc.chars) :
          IF configured
          THEN /\ proc' = [proc EXCEPT !.monitoring = TRUE]
               /\ pc' = Monitor_next([at |-> "existing", todo |-> listing, cur |-> "none"])
               /\ op' = "start_monitoring"
          ELSE /\ proc' = proc
               /\ pc' = pc
               /\ op' = "start_refused"
    /\ aux' = [aux EXCEPT !.steps = @ + 1]
    /\ UNCHANGED <<phase, src, out, raised, sent, hist>>

\* one poll of the monitoring loop, every three seconds: the directory is
\* listed and the new files are picked
MonitorPoll ==
    /\ phase = "idle" /\ aux.steps < MaxSteps
    /\ pc.at = "loop" /\ pc.todo = <<>> /\ pc.cur = "none"
    /\ \E listing \in Listings(proc.chars) :
          pc' = [pc EXCEPT !.todo = Card_new_files(proc, listing)]
    /\ op' = "monitor_poll"
    /\ aux' = [aux EXCEPT !.steps = @ + 1]
    /\ UNCHANGED <<phase, src, out, raised, sent, proc, hist>>

\* the next file of the listing: process_existing_files tests its hash
\* against the db when it comes to it, the poll has tested it already; then
\* process_character runs up to the wait for the translation
MonitorProcess ==
    /\ phase = "idle"
    /\ pc.at \in {"existing", "loop"} /\ pc.todo # <<>> /\ pc.cur = "none"
    /\ \E moves \in BOOLEAN :
         LET name == Head(pc.todo)
             picked == \/ pc.at = "loop"
                       \/ proc.db[name] # Card_get_file_hash(proc.chars[name])
             began == IF picked THEN Card_process_character_begin(proc, name, moves)
                      ELSE [files |-> proc, waits |-> FALSE]
         IN /\ proc' = began.files
            /\ pc' = Monitor_next([pc EXCEPT !.todo = Tail(@),
                                             !.cur = IF began.waits THEN name ELSE "none"])
            /\ src' = name
    /\ op' = "process_character"
    /\ UNCHANGED <<phase, out, raised, sent, aux, hist>>

\* the wait for the translation of a card ends.  A reply lets
\* process_character save, record and report the card.  An exception of
\* translate_text leaves start_monitoring: out of process_existing_files with
\* monitoring still on, out of the loop through its finally block.  Ctrl-C
\* does the same out of process_existing_files; the loop catches it and
\* start_monitoring returns to the menu
MonitorReply ==
    /\ phase = "idle" /\ pc.cur # "none"
    /\ \E reply \in Replies :
         IF reply \in {"ok", "save_fails"}
         THEN /\ proc' = Card_process_character_end(proc, pc.cur, reply = "ok")
              /\ hist' = Append(hist, <<"translated", pc.cur>>)
              /\ pc' = Monitor_next([pc EXCEPT !.cur = "none"])
              /\ phase' = phase /\ raised' = FALSE
              /\ op' = "card_translated"
         ELSE /\ proc' = [proc EXCEPT !.monitoring = (pc.at = "existing")]
              /\ hist' = hist
              /\ pc' = AtMenu
              /\ phase' = IF pc.at = "loop" /\ reply = "interrupt" THEN "idle" ELSE "crashed"
              /\ raised' = (phase' = "crashed")
              /\ op' = IF reply = "interrupt" THEN "interrupted" ELSE "translate_raised"
    /\ src' = pc.cur
    /\ UNCHANGED <<out, sent, aux>>

\* Enter ends the monitoring loop and the menu comes back
MonitorStop ==
    /\ phase = "idle" /\ aux.steps < MaxSteps
    /\ pc.at = "loop" /\ pc.todo = <<>> /\ pc.cur = "none"
    /\ proc' = [proc EXCEPT !.monitoring = FALSE]
    /\ pc' = AtMenu
    /\ op' = "stop_monitoring"
    /\ aux' = [aux EXCEPT !.steps = @ + 1]
    /\ UNCHANGED <<phase, src, out, raised, sent, hist>>

\* menu choice 2: processor.db = {} and save_db
MonitorClearData ==
    /\ phase = "idle" /\ aux.steps < MaxSteps /\ pc.at = "menu"
    /\ proc' = [proc EXCEPT !.db = [n \in CardFiles |-> NoHash]]
    /\ hist' = Append(hist, <<"reset">>)
    /\ op' = "clear_translation_data"
    /\ aux' = [aux EXCEPT !.steps = @ + 1]
    /\ UNCHANGED <<phase, src, out, raised, sent, pc>>

\* menu choice 3, restore_originals: every backup file is copied over the
\* file of its name in the characters directory and removed, and its name is
\* deleted from the db
MonitorRestoreOriginals ==
    /\ phase = "idle" /\ aux.steps < MaxSteps /\ pc.at = "menu"
    /\ \E listing \in Listings(proc.backup) :
         LET kept == {n \in CardFiles : proc.backup[n] # "absent"}
         IN /\ proc' = [proc EXCEPT
                          !.chars = [n \in CardFiles |-> IF n \in kept THEN proc.backup[n] ELSE @[n]],
                          !.backup = [n \in CardFiles |-> "absent"],
                          !.db = [n \in CardFiles |-> IF n \in kept THEN NoHash ELSE @[n]]]
            /\ hist' = hist \o [k \in 1..Len(listing) |-> <<"restored", listing[k]>>]
    /\ op' = "restore_originals"
    /\ aux' = [aux EXCEPT !.steps = @ + 1]
    /\ UNCHANGED <<phase, src, out, raised, sent, pc>>

NextMonitor ==
    \/ MonitorDropCard
    \/ MonitorStart
    \/ MonitorPoll
    \/ MonitorProcess
    \/ MonitorReply
    \/ MonitorStop
    \/ MonitorClearData
    \/ MonitorRestoreOriginals
SpecMonitor == InitMonitor /\ [][NextMonitor]_vars

(***************************************************************************)
(* SpecFrame: translate_json_data (engine.py) and translate_json           *)
(* (preset_translator.py) on documents in which a container may be         *)
(* reachable by two paths.  A document is a heap: a sequence of dict and   *)
(* list nodes, the first one the root, in which an item is a string, some  *)
(* other JSON value or a reference to a container of the heap.             *)
(***************************************************************************)
Ref(k) == [t |-> "ref", keys |-> <<>>, items |-> <<>>, val |-> Decimal(k)]
RefId(node, heap) == CHOOSE k \in 1..Len(heap) : Decimal(k) = node.val

Preset_TARGET_FIELDS ==
    {"content", "new_group_chat_prompt", "new_example_chat_prompt",
     "continue_nudge_prompt", "wi_format", "personality_format",
     "group_nudge_prompt", "scenario_format", "new_chat_prompt",
     "impersonation_prompt", "bias_preset_selected", "assistant_impersonation"}

\* a test that takes every non-blank string, whatever its key
Json_is_target_any_key(fields, key, value) ==
    value.t = "str" /\ Strip(value.val) # <<>>

\* key in TARGET_FIELDS and isinstance(value, str) and value.strip()
Json_is_target(fields, key, value) ==
    key \in fields /\ value.t = "str" /\ Strip(value.val) # <<>>

\* find_items of engine.py on a heap: st = [found, visited]; a container
\* whose id is in visited is not entered again
RECURSIVE Engine_visit(_, _, _)
RECURSIVE Engine_visit_items(_, _, _, _)
Engine_visit(heap, id, st) ==
    IF id \in st.visited THEN st
    ELSE Engine_visit_items(heap, id, 1, [st EXCEPT !.visited = @ \cup {id}])
Engine_visit_items(heap, id, i, st) ==
    IF i > Len(heap[id].items) THEN st
    ELSE Engine_visit_items(heap, id, i + 1,
           IF heap[id].t = "dict"
              /\ Json_is_target(Engine_TARGET_FIELDS, heap[id].keys[i], heap[id].items[i])
           THEN [st EXCEPT !.found = Append(@, <<id, i>>)]
           ELSE IF heap[id].items[i].t = "ref"
                THEN Engine_visit(heap, RefId(heap[id].items[i], heap), st)
                ELSE st)

\* translate_json_data on a heap: the items found, then the loop that
\* stores each translation in its container
Engine_translate_heap(heap, cfg, kinds) ==
    Engine_translate_items([data |-> ListNode(heap), raised |-> FALSE, sent |-> <<>>, done |-> 0],
                           Engine_visit(heap, 1, [found |-> <<>>, visited |-> {}]).found,
                           1, cfg, kinds)

\* find_items of preset_translator.py on a heap: st = [found, heap]; no
\* container is remembered, and a wi_format or scenario_format string that
\* is not taken for translation has its spaced braces closed up
RECURSIVE Preset_visit_items(_, _, _)
Preset_visit_items(id, i, st) ==
    IF i > Len(st.heap[id].items) THEN st
    ELSE Preset_visit_items(id, i + 1,
           LET key == IF st.heap[id].t = "dict" THEN st.heap[id].keys[i] ELSE ""
               value == st.heap[id].items[i]
           IN IF st.heap[id].t = "dict" /\ Json_is_target(Preset_TARGET_FIELDS, key, value)
              THEN [st EXCEPT !.found = Append(@, <<id, i>>)]
              ELSE IF key \in {"wi_format", "scenario_format"} /\ value.t = "str"
              THEN [st EXCEPT !.heap[id].items[i] =
                      StrNode(Replace(Replace(value.val, <<"{", " ", "{">>, <<"{", "{">>),
                                      <<"}", " ", "}">>, <<"}", "}">>))]
              ELSE IF value.t = "ref"
              THEN Preset_visit_items(RefId(value, st.heap), 1, st)
              ELSE st)

\* the loop of translate_json over the items found: an exception of
\* translate_text is caught and the field keeps its value
RECURSIVE Preset_translate_items(_, _, _, _, _)
Preset_translate_items(st, found, k, cfg, kinds) ==
    IF k > Len(found) THEN st
    ELSE Bind(Preset_translate_text(st.heap[found[k][1]].items[found[k][2]].val, cfg,
                                    ShiftKinds(kinds, Len(st.sent))), LAMBDA r :
           Preset_translate_items(
              IF r.raised THEN [st EXCEPT !.sent = @ \o r.sent]
              ELSE [st EXCEPT !.heap[found[k][1]].items[found[k][2]] = StrNode(r.out),
                              !.sent = @ \o r.sent],
              found, k + 1, cfg, kinds))

Preset_translate_json(heap, cfg, kinds) ==
    Bind(Preset_visit_items(1, 1, [found |-> <<>>, heap |-> heap]), LAMBDA st :
      Preset_translate_items([heap |-> st.heap, sent |-> <<>>], st.found, 1, cfg, kinds))

\* the documents: a root dict, the list under its key prompts, and the dict
\* in that list; the root's key extra holds a number or a second reference
\* to the list or to the inner dict
FrameTexts == {<<"t">>, <<" ">>, <<"T", " ", "t">>}
FrameFormats == {<<>>, <<" ">>, <<"{", " ", "{", "t", "}", " ", "}">>}
FrameExtras == {OtherNode, Ref(2), Ref(3)}
FrameKinds == {<<"ok">>, <<"fail">>, <<"none">>, <<"ok", "fail">>, <<"echo", "empty">>}
FrameDoc(text, format, extra) ==
    <<DictNode(<<"content", "name", "temperature", "prompts", "extra">>,
               <<StrNode(text), StrNode(<<"t">>), OtherNode, Ref(2), extra>>),
      ListNode(<<Ref(3), StrNode(<<"t">>)>>),
      DictNode(<<"identifier", "content", "wi_format", "assistant_prefill">>,
               <<StrNode(<<"t">>), StrNode(<<"t">>), StrNode(format), StrNode(<<"t">>)>>)>>

InitFrame ==
    /\ phase = "idle" /\ op = "none"
    /\ src = <<>> /\ out = <<>> /\ raised = FALSE /\ sent = <<>>
    /\ aux = [cfg |-> <<>>, kinds |-> <<>>]
    /\ NoProcessor

FrameEngineTranslateJsonData ==
    /\ phase = "idle"
    /\ \E text \in FrameTexts, format \in FrameFormats, extra \in FrameExtras,
          cfg \in EngineCfgs, kinds \in FrameKinds :
          /\ src' = FrameDoc(text, format, extra)
          /\ aux' = [cfg |-> cfg, kinds |-> kinds]
          /\ \E r \in {Engine_translate_heap(FrameDoc(text, format, extra), cfg, kinds)} :
                out' = r.data.items /\ raised' = r.raised /\ sent' = r.sent
    /\ phase' = "done" /\ op' = "engine"
    /\ UNCHANGED <<proc, hist, pc>>

FramePresetTranslateJson ==
    /\ phase = "idle"
    /\ \E text \in FrameTexts, format \in FrameFormats, extra \in FrameExtras,
          cfg \in PresetCfgs, kinds \in FrameKinds :
          /\ src' = FrameDoc(text, format, extra)
          /\ aux' = [cfg |-> cfg, kinds |-> kinds]
          /\ \E r \in {Preset_translate_json(FrameDoc(text, format, extra), cfg, kinds)} :
                out' = r.heap /\ raised' = FALSE /\ sent' = r.sent
    /\ phase' = "done" /\ op' = "preset"
    /\ UNCHANGED <<proc, hist, pc>>

NextFrame == FrameEngineTranslateJsonData \/ FramePresetTranslateJson
SpecFrame == InitFrame /\ [][NextFrame]_vars

(***************************************************************************)
(* SpecNewlines: recursive_translate of card_translator.py on short texts, *)
(* with a backend whose reply may have other line breaks than the payload. *)
(***************************************************************************)
NewlineAtoms == {<<"t">>, <<" ">>, <<"\n">>, <<"*">>, <<"\"">>}
NewlineKinds ==
    {<<"ok">>, <<"lines">>, <<"trailing">>, <<"joined">>, <<"empty">>, <<"fail">>, <<"none">>}

InitNewlines ==
    /\ phase = "idle" /\ op = "none"
    /\ src = <<>> /\ out = <<>> /\ raised = FALSE /\ sent = <<>>
    /\ aux = [kinds |-> <<>>]
    /\ NoProcessor

NewlinesRecursiveTranslate ==
    /\ phase = "idle"
    /\ \E text \in Texts(NewlineAtoms, MaxAtoms), kinds \in NewlineKinds :
       \E r \in {Card_recursive_translate(text, <<>>,
                     Card_settings("mymemory", "pt", <<FALSE, FALSE, FALSE>>),
                     <<>>, kinds)} :
          /\ src' = text /\ aux' = [kinds |-> kinds]
          /\ out' = r.out /\ raised' = r.raised /\ sent' = r.sent
          /\ phase' = "done" /\ op' = "recursive_translate"
          /\ UNCHANGED <<proc, hist, pc>>

NextNewlines == NewlinesRecursiveTranslate
SpecNewlines == InitNewlines /\ [][NextNewlines]_vars

-----------------------------------------------------------------------------
(* The properties                                                           *)

\* the pieces occur in s one after the other, in this order, from index a on
RECURSIVE InOrder(_, _, _)
InOrder(s, pieces, a) ==
    IF pieces = <<>> THEN TRUE
    ELSE Bind(Find(s, Head(pieces), a), LAMBDA i :
           i # 0 /\ InOrder(s, Tail(pieces), i + Len(Head(pieces))))

\* the inline code spans and fenced code blocks of a text
CodeSpans(text) ==
    Bind(FindIter(text, [i \in 1..Len(text) |-> CodeSpanEnd(text, i)]), LAMBDA matches :
      {Slice(text, matches[k][1], matches[k][2]) : k \in 1..Len(matches)})

\* the kinds of the replies to the requests of the finished call
ReplyKindsOfCall == {KindAt(aux.kinds, i) : i \in 1..Len(sent)}

\* C1: when translate_text returns, the returned string contains none of the
\* placeholders that this call put into the text.
C1_MarkersRemoved ==
    (phase = "done" /\ op = "translate_text" /\ ~raised)
        => \A marker \in aux.inserted : ~Contains(out, marker)

\* C2: _restore_protected applied to the untouched output of _extract_and_protect
\* gives back the source text exactly.
C2_RoundTrip ==
    phase = "done" => out = src

\* C3: no request sent to the backend contains the text of a code span of the
\* source, and every code span of the source occurs character for character in
\* the string translate_text returns.
C3_CodeUntouched ==
    (phase = "done" /\ op = "translate_text" /\ ~raised)
        => \A span \in CodeSpans(src) :
              /\ Contains(out, span)
              /\ \A i \in 1..Len(sent) : ~Contains(sent[i].text, span)

\* C4: when a backend call fails or comes back empty, translate_text still
\* returns and translate_json_data goes on to translate every field it found.
C4_NeverRaises ==
    (phase = "done" /\ ReplyKindsOfCall \cap {"fail", "empty", "none"} # {})
        => /\ ~raised
           /\ op = "translate_json_data" => aux.done = aux.fields

\* C5: when the backend fails for exactly one chunk of a field of two or more
\* chunks and translates the others, the result contains the failing chunk as
\* it was and the translations of the other chunks, in the order of the chunks.
C5_FailingChunkKept ==
    (/\ phase = "done" /\ ~aux.cfg.use_llm /\ aux.cfg.google
     /\ Len(sent) >= 2
     /\ Cardinality({i \in 1..Len(sent) : KindAt(aux.kinds, i) = "fail"}) = 1
     /\ \A i \in 1..Len(sent) : KindAt(aux.kinds, i) \in {"fail", "ok"})
        => /\ ~raised
           /\ InOrder(out,
                      [i \in 1..Len(sent) |->
                           IF KindAt(aux.kinds, i) = "fail" THEN sent[i].text
                           ELSE Translate(sent[i].text)], 1)

\* C6: when every reply of the backend is empty or None, translate_text raises
\* nothing and returns what it returns when the backend sends every chunk back
\* as it was.
C6_EmptyReplyFallsBack ==
    (/\ phase = "done" /\ op = "translate_text" /\ Len(sent) >= 1
     /\ ReplyKindsOfCall \subseteq {"empty", "none"})
        => /\ ~raised
           /\ out = Engine_translate_text(src, aux.cfg, <<"echo">>).out

\* C7: when every backend call made for a field fails, translate_text returns
\* the source text of the field exactly.
C7_UntranslatedFieldKept ==
    (/\ phase = "done" /\ op = "translate_text" /\ Len(sent) >= 1
     /\ ReplyKindsOfCall = {"fail"})
        => (~raised /\ out = src)

\* C8: of two successive translate_text calls with the same text, character
\* name and settings, at most one reaches the backend, and the second returns
\* what the first returned.
C8_TranslatedOnce ==
    \A i \in 1..(Len(hist) - 1) :
        (/\ hist[i].text = hist[i + 1].text
         /\ hist[i].char_name = hist[i + 1].char_name
         /\ hist[i].cs = hist[i + 1].cs)
            => /\ Len(hist[i].sent) + Len(hist[i + 1].sent) <= 1
               /\ ~hist[i + 1].raised
               /\ hist[i + 1].out = hist[i].out

\* C9: a translate_text call answered from the cache returns a result that was
\* stored while the target language was the one the call is made under.
C9_CacheKeyedByLanguage ==
    \A i \in 1..Len(hist) :
        hist[i].hit => hist[i].hit_lang = hist[i].cs.target_lang

\* C10 is about two translate_text calls in progress at once.  The processor
\* is used by one thread: CharacterHandler defines no event method, so the
\* watchdog observer never reaches it, and start_monitoring calls
\* process_character from its own loop.  Each call returns before the next
\* begins, and no state of SpecCard holds two unfinished calls; the claim has
\* no formula here.

\* C11: an entry stored in a cache of the processor (_llm_cache, keyed by text
\* and character name; _translation_cache, keyed by hash(text), which the model
\* takes to be one key per text) is kept as it is by every later step: no step
\* replaces its value or removes it.
C11_CacheEntriesKept ==
    [][/\ \A e \in proc.llm_cache : e \in proc.llm_cache'
       /\ \A e \in proc.translation_cache : e \in proc.translation_cache']_vars

\* the chunks of the finished call, in order: the pieces returned by split_text
\* and _split_into_chunks, the strings _translate_with_google sent to the backend
ChunksOfCall ==
    IF op = "_translate_with_google" THEN [i \in 1..Len(sent) |-> sent[i].text] ELSE out

\* C12: the chunks a chunker makes of a text, concatenated in order, are the
\* text again, character for character.
C12_ChunksConcatenate ==
    phase = "done" => Concat(ChunksOfCall) = src

\* C13: every piece split_text(text, k) returns has at most k characters, and
\* every string _translate_with_google sends to the backend has at most
\* MAX_CHUNK_CHAR_LIMIT characters.
C13_ChunksWithinLimit ==
    (phase = "done" /\ op \in {"split_text", "_translate_with_google"})
        => \A i \in 1..Len(ChunksOfCall) : Len(ChunksOfCall[i]) <= aux.size

\* a text of more than MAX_CHUNK_CHAR_LIMIT characters went to the backend in
\* several requests, one of them of exactly MAX_CHUNK_CHAR_LIMIT characters
C13_Witness ==
    /\ phase = "done" /\ op = "_translate_with_google"
    /\ Len(src) > MAX_CHUNK_CHAR_LIMIT
    /\ Len(sent) > 1
    /\ \E i \in 1..Len(sent) : Len(sent[i].text) = MAX_CHUNK_CHAR_LIMIT

\* the number of places where the marker occurs in s
Occurrences(s, marker) ==
    Cardinality({i \in 1..(Len(s) - Len(marker) + 1) : At(s, i, marker)})

RECURSIVE OccurrencesIn(_, _)
OccurrencesIn(chunks, marker) ==
    IF chunks = <<>> THEN 0
    ELSE Occurrences(Head(chunks), marker) + OccurrencesIn(Tail(chunks), marker)

\* the markers of the shielded text: the code placeholders of the shield's table
\* and the stand-in names
MarkersOfCall == {aux.items[i][1] : i \in 1..Len(aux.items)} \cup {Jane, James}

\* C14: every marker of the shielded text (code placeholder or stand-in name)
\* lies wholly inside one chunk: each occurrence in the text is an occurrence
\* in a chunk.
C14_MarkersWhole ==
    (phase = "done" /\ op \in {"split_text", "_translate_with_google"})
        => \A marker \in MarkersOfCall :
              OccurrencesIn(ChunksOfCall, marker) = Occurrences(src, marker)

\* the simple case variants of a name: as it is, lower case, upper case
CaseVariants(name) == {name, StrLower(name), StrUpper(name)}

\* the stand-in names the finished call put into the text
StandInsOfCall ==
    (IF Contains(src, VarChar) THEN {aux.char} ELSE {})
        \cup (IF Contains(src, VarUser) THEN {aux.user} ELSE {})

\* C15: when the call returns, no case variant (exact, lower case, upper case,
\* capitalized, possessive) of a stand-in name it put into the text is left in
\* the returned string.
C15_NoStandInLeft ==
    (phase = "done" /\ ~raised)
        => \A name \in StandInsOfCall : \A variant \in CaseVariants(name) :
              ~Contains(out, variant)

\* a text without its {{user}} and {{char}} placeholders
OutsidePlaceholders(text) == Replace(Replace(text, VarUser, <<>>), VarChar, <<>>)

\* C16: when the letters of the source outside its placeholders are all upper
\* case, the string translate_segment returns has no lower-case letter outside
\* its placeholders, whatever the case of the backend's reply.
C16_UpperCaseKept ==
    (/\ phase = "done" /\ op = "translate_segment" /\ ~raised
     /\ IsUpperStr(OutsidePlaceholders(src)))
        => \A i \in 1..Len(OutsidePlaceholders(out)) :
              OutsidePlaceholders(out)[i] \notin Range(LowerSeq)

\* C17: normalizing a normalized text again, with the same source text, changes
\* nothing.
C17_NormalizeIdempotent ==
    phase = "done" => out = aux.once

\* C18: in the output of _post_process_formatting no '.', ',', ';' or ':' has
\* whitespace just before it, and each of them that is not the last character
\* is followed by a closing bracket or by exactly one space.
C18_PunctuationSpacing ==
    phase = "done"
        => \A i \in 1..Len(aux.once) :
              aux.once[i] \in {".", ",", ";", ":"}
                  => /\ i > 1 => aux.once[i - 1] \notin SpaceSet
                     /\ i < Len(aux.once)
                           => aux.once[i + 1] \in SpaceSet \cup {")", "}", "]"}
                     /\ (i + 1 < Len(aux.once) /\ aux.once[i + 1] = " ")
                           => aux.once[i + 2] # " "


\* bold text with italic text inside it: ** a * b * c **
NestedEmphasis ==
    {Delimited(<<>>, <<"*", "*">>, Delimited(a, <<"*">>, b, c), <<>>) :
        a \in SegmentWords, b \in SegmentWords, c \in SegmentWords}

\* the words a, b and c of the nested emphasis ** a * b * c **
NestedWords(s) ==
    CHOOSE w \in SegmentWords \X SegmentWords \X SegmentWords :
        s = Delimited(<<>>, <<"*", "*">>, Delimited(w[1], <<"*">>, w[2], w[3]), <<>>)

\* C19: for bold text with italic text inside it, the segmenter matches the
\* opening ** with the closing ** at the end, so that its split of the text is
\* one delimited part, the whole text; the interior is segmented again: the
\* requests to the backend are the three words between the stars, in order
\* and apart from blanks at their ends, and none holds a star; the returned
\* string keeps the outer ** pair at its two ends and the inner * pair between
\* them, six stars in all; when the backend translates, the returned string is
\* the text with every star where it was and the words between translated.
C19_NestedEmphasisKept ==
    (phase = "done" /\ src \in NestedEmphasis)
        => /\ ~raised
           /\ aux.parts = <<[kind |-> "delimiter", raw |-> src]>>
           /\ Len(sent) = 3
           /\ \A i \in 1..Len(sent) :
                 /\ ~Contains(sent[i].text, <<"*">>)
                 /\ Strip(sent[i].text) = Strip(NestedWords(src)[i])
           /\ Occurrences(out, <<"*">>) = 6
           /\ StartsWith(out, <<"*", "*">>) /\ EndsWith(out, <<"*", "*">>)
           /\ Occurrences(out, <<"*", "*">>) = 2
           /\ aux.kinds = <<"ok">> => out = TranslateTo("pt", src)

\* the number of maximal runs of the character c in s
Runs(s, c) == Cardinality({i \in 1..Len(s) : s[i] = c /\ (i = 1 \/ s[i - 1] # c)})

\* the delimiter characters whose only run in the source opens and cannot close
UnbalancedOfCall == {c \in {"*", "\""} : Runs(src, c) = 1}

\* the one run of the character c in s
RunOf(s, c) == Slice(s, FirstOf(s, {c}, 1), RunEnd(s, FirstOf(s, {c}, 1), {c}))

\* C20: when a delimiter opens in the text and never closes, the segmenter does
\* not raise, the delimiter run is handled as plain text (it goes to the
\* backend inside a request, or, when no request is made for the text that
\* holds it, it is in the returned string as it was), and the returned string
\* has no more of that delimiter than the text had: no closing partner is
\* added.
C20_UnbalancedFailOpen ==
    phase = "done"
        => \A c \in UnbalancedOfCall :
              /\ ~raised
              /\ \/ \E i \in 1..Len(sent) : Contains(sent[i].text, RunOf(src, c))
                 \/ Contains(out, RunOf(src, c))
              /\ Occurrences(out, <<c>>) <= Occurrences(src, <<c>>)

\* an unclosed delimiter was sent as text and came back in a translated string
C20_Witness ==
    /\ phase = "done" /\ UnbalancedOfCall # {} /\ ~raised
    /\ out # src /\ Len(sent) >= 1
    /\ \E c \in UnbalancedOfCall : Occurrences(out, <<c>>) = Occurrences(src, <<c>>)

\* C21: with translate_angle disabled, the statistical path of translate_text
\* sends no angle-bracket tag of the source to the backend, and the returned
\* string has every tag of the source as it was.
C21_AngleTagsKept ==
    (/\ phase = "done" /\ op = "translate_text" /\ ~raised
     /\ ~aux.cfg.use_llm /\ ~aux.cfg.translate_angle)
        => /\ \A i \in 1..Len(sent) : ~Contains(sent[i].text, AngleTag)
           /\ Occurrences(out, AngleTag) = Occurrences(src, AngleTag)

\* C22: cleaning the reply of the model gives back the payload apart from
\* surrounding whitespace, whether the model wrapped it in a code fence or
\* not, tags of the payload included.
C22_OnlyWrapperStripped ==
    phase = "done" => out = Strip(aux.payload)

\* C23: translate_text of an empty or whitespace-only text returns the text
\* as it was and sends nothing to the backend.
C23_BlankIsNoOp ==
    phase = "done" => (~raised /\ out = src /\ sent = <<>>)

\* C24: after every configuration operation that returned, the translator of
\* the processor is the one set_translator_service builds for the processor's
\* translation_service.
C24_TranslatorMatchesService ==
    (/\ op \in {"configure_translation_language", "configure_translation_service",
                "configure_model"}
     /\ ~raised)
        => /\ ~Card_set_translator_service(proc.cs).raised
           /\ Card_set_translator_service(proc.cs).cs.translator = proc.cs.translator


\* C25: at most one worker is between its start and the set_ui_state(True)
\* callback that its finally block schedules, and while one is there the
\* translate button is disabled, so no second worker can be started while
\* one is still translating
C25_OneWorkerTranslating ==
    /\ Cardinality({k \in 1..Len(pc) : pc[k].at \notin {"idle", "ended"}}) <= 1
    /\ (\E k \in 1..Len(pc) : pc[k].at \notin {"idle", "ended"}) => ~proc.button

\* a second worker translates, started after the first one re-enabled the UI
C25_Witness ==
    /\ Len(pc) = 2
    /\ pc[1].at \in {"idle", "ended"}
    /\ pc[2].at = "request"
    /\ ~proc.button


\* C26: whenever start_translation has disabled the UI and started a worker,
\* the UI is eventually enabled again, whichever way the worker ends
C26_UiReEnabled ==
    (~proc.button /\ Len(pc) > 0) ~> proc.button

\* a worker whose file read, backend request or save raised has ended and the callback of
\* its finally block has enabled the UI again
C26_Witness ==
    /\ proc.button
    /\ proc.queue = <<>>
    /\ \E k \in 1..Len(pc) : pc[k].failed /\ pc[k].at = "ended"


\* C27: a file name recorded in the translation db has a card in the
\* characters directory: no card is recorded as translated while it is in the
\* backup directory only
C27_RecordedCardWritten ==
    \A n \in CardFiles :
        Card_in_db(proc.db, n) => proc.chars[n] # "absent"


\* the "Successfully translated" lines the console has for a name since the
\* db last lost the name (translation data reset, or the name restored)
TranslatedSinceReset(n) ==
    LET resets == {0} \cup {i \in 1..Len(hist) : hist[i] \in {<<"reset">>, <<"restored", n>>}}
        last == CHOOSE i \in resets : \A j \in resets : j <= i
    IN Cardinality({i \in (last + 1)..Len(hist) : hist[i] = <<"translated", n>>})

\* a step of process_existing_files or of the monitoring loop leaves alone
\* every name the db holds: its files in both directories, its db entry and
\* the console lines about it
RecordedLeftAlone ==
    (op' \in {"start_monitoring", "monitor_poll", "process_character", "card_translated",
              "interrupted", "translate_raised"}) =>
        \A n \in CardFiles :
            proc.db[n] # NoHash =>
                /\ proc'.chars[n] = proc.chars[n]
                /\ proc'.backup[n] = proc.backup[n]
                /\ proc'.db[n] = proc.db[n]
                /\ SelectSeq(hist', LAMBDA line : line = <<"translated", n>>)
                       = SelectSeq(hist, LAMBDA line : line = <<"translated", n>>)

\* C28: between resets of the translation db each card file name is
\* translated at most once, and however often the directory is polled,
\* process_character does not move, translate or save a file whose name is
\* in the db
C28_TranslatedOncePerReset ==
    /\ [](\A n \in CardFiles : TranslatedSinceReset(n) <= 1)
    /\ [][RecordedLeftAlone]_vars

\* a poll met an untranslated card under a name the db holds (the user put
\* the card back after its translation), handed it to process_character, and
\* process_character left it as it was
C28_Witness ==
    /\ op = "process_character" /\ src = "a"
    /\ pc.at = "loop" /\ pc.cur = "none"
    /\ proc.db["a"] # NoHash
    /\ proc.chars["a"] = "orig"
    /\ hist = <<<<"translated", "a">>>>


\* the TARGET_FIELDS of the program that ran
FrameFields == IF op = "engine" THEN Engine_TARGET_FIELDS ELSE Preset_TARGET_FIELDS

\* the item i of container id was, before the call, a non-blank string under
\* a TARGET_FIELDS key of a dict
FrameTarget(id, i) ==
    /\ src[id].t = "dict"
    /\ src[id].keys[i] \in FrameFields
    /\ src[id].items[i].t = "str"
    /\ Strip(src[id].items[i].val) # <<>>

\* C29: translate_json_data changes only the values stored under
\* TARGET_FIELDS keys that are non-blank strings: the containers, their
\* kinds, keys and lengths and every other item are as before the call, also
\* in a document in which a container is reachable by two paths
C29_OnlyTargetFieldsChange ==
    phase = "done" =>
        /\ Len(out) = Len(src)
        /\ \A id \in 1..Len(src) :
              /\ out[id].t = src[id].t
              /\ out[id].keys = src[id].keys
              /\ Len(out[id].items) = Len(src[id].items)
              /\ \A i \in 1..Len(src[id].items) :
                    IF FrameTarget(id, i)
                    THEN out[id].items[i].t = "str"
                    ELSE out[id].items[i] = src[id].items[i]

\* the inner dict is reachable by two paths, its content field was
\* translated and its identifier was not
C29_Witness ==
    /\ phase = "done"
    /\ src[1].items[5] = Ref(3)
    /\ out[3].items[2] # src[3].items[2]
    /\ out[3].items[1] = src[3].items[1]
    /\ Len(sent) >= 2


\* C30: when recursive_translate finds no delimiter pair in its text and the
\* backend call succeeds, the returned string has exactly as many newline
\* characters as the text, whatever the backend returned
C30_NewlineCountKept ==
    (/\ phase = "done" /\ op = "recursive_translate"
     /\ ~Card_first_pair(src).found
     /\ Len(sent) = 1
     /\ KindAt(aux.kinds, 1) \notin {"fail", "none"})
        => CountNewlines(out) = CountNewlines(src)

====
